---- MODULE Spec2Model ----
(***************************************************************************)
(* Model of suyons/trading-strategy-atr-renko: the Renko brick builder     *)
(* (RenkoCalculator), the two order handlers (OrderHandler and             *)
(* SimulatedOrderHandler) and the three-brick TradingBot.                  *)
(*                                                                         *)
(* Prices and brick sizes are integers (ticks).  An optional value is a    *)
(* sequence of length 0 (Python's None) or 1.                              *)
(***************************************************************************)
EXTENDS Integers, Sequences, FiniteSets, TLC

\* ------------------------------------------------------------------ bounds
\* Bricks handed to TradingBot.process_renko_bricks in one call.
MaxBurst == 2
\* Bars loaded at bootstrap plus tickers handled afterwards, over all symbols.
MaxInputs == 4
\* Tickers in one ticker_data_list.
MaxBatch == 1
\* Prices of one replayed sequence.
MaxReplay == 3
\* ATR_PERIOD of the run (env_config.py:13 defaults it to 14).
atr_period == 1

\* ------------------------------------------------------- program constants
\* trading_bot.py:40  len(self.confirmed_bricks_history) > 5
MaxTotal == 3           \* the configured count of bars goes up to this
MaxHistory == 5         \* the exchange holds up to this many bars
limit_per_request == 2  \* bars per request (1000 in the code)

HistoryKeep == 5
\* trading_bot.py:49  len(self.confirmed_bricks_history) < 3
PatternLen == 3
\* renko_calculator.py:181 and :304  len(renko_bricks) > 200
RenkoKeep == 200

VARIABLES
    entry,                      \* which component of the repository runs
    \* TradingBot (service/trading_bot.py)
    confirmed_bricks_history,   \* directions of the recent confirmed bricks
    position,                   \* "none" (None) | "long" | "short"
    open_price,                 \* None or Some(price)
    bot_pc,                     \* "idle" | "loop" | "entry" | "exit" | "cancelled"
    bot_pending,                \* bricks of new_bricks not yet looped over
    bot_todo,                   \* order types still to issue in the entry block
    bot_calls,                  \* exchange calls of the current brick's check
    bot_failed,                 \* whether an exchange call has raised so far
    \* OrderHandler / SimulatedOrderHandler
    symbol_position_list,       \* per symbol: recorded side and size
    exchange_position,          \* per symbol: the position the exchange holds
    oh_calls,                   \* create_futures_order calls of the last operation
    oh_outcome,                 \* "none" | "returned" | "raised"
    \* RenkoCalculator (service/renko_calculator.py)
    symbol_data_list,           \* one record per loaded symbol
    discord_client,             \* "none" (None) | "DiscordClient"
    order_handler,              \* "none" | "OrderHandler" | "SimulatedOrderHandler"
    renko_phase,                \* "boot" | "live"
    ticks,                      \* tickers handled so far
    renko_log,                  \* per ticker of the last call: what it met and formed
    renko_calls,                \* notifier and handler calls of the last call
    renko_outcome,              \* "none" | "returned" | "raised"
    renko_skipped,              \* symbols the last call passed over for want of a brick size
    renko_failed,               \* a notifier or order call failed in a call before the last
    \* One price sequence run through each path of the brick builder
    replay,                     \* the sequence, the brick size, and each path's record
    \* The live loop (main.py, test/watch_trade.py)
    main_loop,                  \* which file's code runs
    main_pc,                    \* "connect" | "connected" | "returned" | "watch" | "body" |
                                \* "pause" | "retry_wait" | "left" | "interrupted"
    main_caught,                \* the except clause that took the last error, else "none"
    main_error,                 \* the class of the last error raised, else "none"
    \* The paginated fetch of historical bars
    fetch                       \* the file whose loop runs, its inputs and its progress

botvars == <<confirmed_bricks_history, position, open_price, bot_pc,
             bot_pending, bot_todo, bot_calls, bot_failed>>

ohvars == <<symbol_position_list, exchange_position, oh_calls, oh_outcome>>

renkovars == <<symbol_data_list, discord_client, order_handler, renko_phase,
               ticks, renko_log, renko_calls, renko_outcome, renko_skipped,
               renko_failed>>

replayvars == <<replay>>

mainvars == <<main_loop, main_pc, main_caught, main_error>>

fetchvars == <<fetch>>

vars == <<entry, botvars, ohvars, renkovars, replayvars, mainvars, fetchvars>>

None == <<>>
Some(v) == <<v>>

Directions == {"up", "down"}

\* What an exchange order call can do: raise, return an order carrying a
\* price, or return an order whose "price" is None.
OrderResponses == {"fail", "fill", "fill_noprice"}

ResponsePrice(out) == IF out = "fill" THEN Some(5) ELSE None

\* main.py drives TradingBot; OrderHandler is the live order handler;
\* backtest.py builds SimulatedOrderHandler.
\* backtest.py and the live wiring drive RenkoCalculator; "load" is a caller
\* of its bar loader alone.
Entries == {"bot", "oh", "sim", "renko", "replay", "main", "fetch", "load"}

\* SYMBOL_LIST, in its order.
symbol_list == <<"BTC_USDT", "ETH_USDT">>

Symbols == {symbol_list[i] : i \in 1..Len(symbol_list)}

Sides == {"buy", "sell"}

\* ------------------------------------------------------------- TradingBot

Last(s) == s[Len(s)]

LastThree(hist) == SubSeq(hist, Len(hist) - PatternLen + 1, Len(hist))

\* A pattern test that looks at the last brick only.
LastDir(hist, d) == Last(hist) = d

AllDir(hist, d) == \A i \in 1..PatternLen : LastThree(hist)[i] = d

\* _check_and_trade, lines 55-81: the order types of the entry block, fixed
\* when the conditions are evaluated (the open follows the close
\* unconditionally).
EntryPlan(hist, pos) ==
    IF Len(hist) < PatternLen THEN <<>>
    ELSE IF AllDir(hist, "up")
         THEN IF pos # "long"
              THEN IF pos = "short" THEN <<"close_short", "long">> ELSE <<"long">>
              ELSE <<>>
    ELSE IF AllDir(hist, "down")
         THEN IF pos # "short"
              THEN IF pos = "long" THEN <<"close_long", "short">> ELSE <<"short">>
              ELSE <<>>
    ELSE <<>>

\* _check_and_trade, lines 83-94: the exit rule, evaluated after the entry
\* block has run.
ExitPlan(hist, pos) ==
    IF Len(hist) < PatternLen THEN <<>>
    ELSE IF pos = "long" /\ Last(hist) = "down" THEN <<"close_long">>
    ELSE IF pos = "short" /\ Last(hist) = "up" THEN <<"close_short">>
    ELSE <<>>

\* _execute_order: whether the order type reaches the exchange.
CallsExchange(pos, order_type) ==
    \/ order_type \in {"long", "short"}
    \/ order_type = "close_long" /\ pos = "long"
    \/ order_type = "close_short" /\ pos = "short"

\* _execute_order, lines 102-155: position and open_price after the exchange
\* call answered `out`.  Every exception is caught and logged.
ExecuteOrder(pos, oprice, order_type, out) ==
    LET same == [position |-> pos, open_price |-> oprice]
    IN  IF out = "fail" THEN same
        ELSE IF order_type = "long"
             THEN [position |-> "long", open_price |-> ResponsePrice(out)]
        ELSE IF order_type = "short"
             THEN [position |-> "short", open_price |-> ResponsePrice(out)]
        \* pnl = order["price"] - self.open_price if self.open_price else 0
        \* raises TypeError on a None price before position is reset
        ELSE IF oprice # None /\ ResponsePrice(out) = None THEN same
        ELSE [position |-> "none", open_price |-> None]

\* The next suspension point of _check_and_trade: the next order type of the
\* block that reaches the exchange, the exit rule after the entry block.
RECURSIVE Advance(_, _, _, _)
Advance(hist, pos, todo, stage) ==
    IF todo # <<>>
    THEN IF CallsExchange(pos, Head(todo))
         THEN [pc |-> stage, order |-> Head(todo), todo |-> Tail(todo)]
         ELSE Advance(hist, pos, Tail(todo), stage)
    ELSE IF stage = "entry"
         THEN Advance(hist, pos, ExitPlan(hist, pos), "exit")
         ELSE [pc |-> "loop", order |-> "none", todo |-> <<>>]

\* A call of the log: the order type, the side recorded when it was issued,
\* and what the exchange answered.
Pending(order_type, pos) ==
    [order |-> order_type, side_before |-> pos, result |-> "pending"]

\* A loop that starts process_renko_bricks and reads the next trade without
\* waiting for it.
ReadsWithoutAwait(pc) == pc \in {"idle", "loop", "entry", "exit"}

\* main.py lines 147-157: the for loop reads the next trade once the awaited
\* process_renko_bricks of the one before has returned.
ReadsNextPrice(pc) == pc = "idle"

\* main.py:157 -> process_renko_bricks(new_bricks), new_bricks non-empty.
ProcessRenkoBricks(dir, n) ==
    /\ entry = "bot"
    /\ ReadsNextPrice(bot_pc)
    /\ bot_pending' = [i \in 1..n |-> dir]
    /\ bot_pc' = "loop"
    /\ UNCHANGED <<entry, confirmed_bricks_history, position, open_price,
                   bot_todo, bot_calls, bot_failed, ohvars, renkovars,
                   replayvars, mainvars, fetchvars>>

\* process_renko_bricks, lines 37-43: one turn of the for loop up to the
\* first awaited exchange call of _check_and_trade.
NextBrick ==
    /\ entry = "bot"
    /\ bot_pc = "loop"
    /\ IF bot_pending = <<>>
       THEN /\ bot_pc' = "idle"
            /\ UNCHANGED <<confirmed_bricks_history, bot_pending, bot_todo,
                           bot_calls>>
       ELSE LET h1 == Append(confirmed_bricks_history, Head(bot_pending))
                h2 == IF Len(h1) > HistoryKeep THEN Tail(h1) ELSE h1
                a  == Advance(h2, position, EntryPlan(h2, position), "entry")
            IN  /\ confirmed_bricks_history' = h2
                /\ bot_pending' = Tail(bot_pending)
                /\ bot_pc' = a.pc
                /\ bot_todo' = a.todo
                /\ bot_calls' = IF a.order = "none" THEN <<>>
                                ELSE <<Pending(a.order, position)>>
    /\ UNCHANGED <<entry, position, open_price, bot_failed, ohvars, renkovars,
                   replayvars, mainvars, fetchvars>>

\* The awaited exchange call of _execute_order answers; _check_and_trade
\* runs on to its next exchange call or to its end.
OrderReturn(out) ==
    /\ entry = "bot"
    /\ bot_pc \in {"entry", "exit"}
    /\ LET cur == Last(bot_calls).order
           eff == ExecuteOrder(position, open_price, cur, out)
           done == [bot_calls EXCEPT ![Len(bot_calls)].result = out]
           a == Advance(confirmed_bricks_history, eff.position, bot_todo, bot_pc)
       IN  /\ position' = eff.position
           /\ open_price' = eff.open_price
           /\ bot_pc' = a.pc
           /\ bot_todo' = a.todo
           /\ bot_calls' = IF a.order = "none" THEN done
                           ELSE Append(done, Pending(a.order, eff.position))
    /\ bot_failed' = (bot_failed \/ out = "fail")
    /\ UNCHANGED <<entry, confirmed_bricks_history, bot_pending, ohvars,
                   renkovars, replayvars, mainvars, fetchvars>>

\* main.py lines 185-188: on KeyboardInterrupt asyncio.run cancels the task
\* of main(); CancelledError is raised at the await the task is suspended
\* on (watch_trades or a sleep of the loop when the bot is idle, else the
\* exchange call of _execute_order).  It is no Exception, so lines 148-155
\* let it through, and nothing of _check_and_trade runs after it.
CancelTask ==
    /\ entry = "bot"
    /\ bot_pc \in {"idle", "entry", "exit"}
    /\ bot_pc' = "cancelled"
    /\ UNCHANGED <<entry, confirmed_bricks_history, position, open_price,
                   bot_pending, bot_todo, bot_calls, bot_failed, ohvars,
                   renkovars,
                   replayvars, mainvars, fetchvars>>

BotInit ==
    /\ confirmed_bricks_history = <<>>
    /\ position = "none"
    /\ open_price = None
    /\ bot_pc = "idle"
    /\ bot_pending = <<>>
    /\ bot_todo = <<>>
    /\ bot_calls = <<>>
    /\ bot_failed = FALSE

BotNext ==
    \/ \E dir \in Directions, n \in 1..MaxBurst : ProcessRenkoBricks(dir, n)
    \/ NextBrick
    \/ \E out \in OrderResponses : OrderReturn(out)
    \/ CancelTask

\* ------------------------------------------------------------ OrderHandler

\* What one create_futures_order call, with the refreshes that follow it in
\* the same try block, can do: the order call raises; the order is filled
\* and a later account call raises; all of it succeeds.
CallResults == {"fail", "fill_then_raise", "fill"}

Sign(side) == IF side = "buy" THEN 1 ELSE -1

SideOf(size) == IF size > 0 THEN "buy" ELSE IF size < 0 THEN "sell" ELSE "none"

PositionRecord(size) ==
    [current_position_side |-> SideOf(size),
     current_position_size_in_quantity |-> size]

\* set_account_data_to_position_list: every record is overwritten from
\* list_positions.
RefreshFromExchange(exch) == [s \in Symbols |-> PositionRecord(exch[s])]

\* A call of the log: the operation, its symbol and side, the side recorded
\* for the symbol when it was issued, and what the exchange answered.
OrderCall(op, symbol, side, recorded, result) ==
    [op |-> op, symbol |-> symbol, side |-> side, recorded |-> recorded,
     result |-> result]

\* OrderHandler.place_market_close_order, lines 189-220.
OHClose(recs, exch, symbol, close_out) ==
    LET call == OrderCall("close", symbol, "none",
                          recs[symbol].current_position_side, close_out)
        flat == [exch EXCEPT ![symbol] = 0]
    IN  IF close_out = "fail"
        THEN [recs |-> recs, exch |-> exch, calls |-> <<call>>,
              outcome |-> "raised"]
        ELSE IF close_out = "fill_then_raise"
        THEN [recs |-> recs, exch |-> flat, calls |-> <<call>>,
              outcome |-> "raised"]
        ELSE [recs |-> RefreshFromExchange(flat), exch |-> flat,
              calls |-> <<call>>, outcome |-> "returned"]

\* OrderHandler.place_market_open_order_after_close, lines 142-187.
OHOpenAfterClose(recs, exch, symbol, side, refresh_ok, close_out, open_out) ==
    IF ~refresh_ok
    THEN [recs |-> recs, exch |-> exch, calls |-> <<>>, outcome |-> "raised"]
    ELSE
    LET r1 == RefreshFromExchange(exch)
        c  == IF r1[symbol].current_position_size_in_quantity # 0
              THEN OHClose(r1, exch, symbol, close_out)
              ELSE [recs |-> r1, exch |-> exch, calls |-> <<>>,
                    outcome |-> "returned"]
        open == OrderCall("open", symbol, side,
                          c.recs[symbol].current_position_side, open_out)
        filled == [c.exch EXCEPT ![symbol] = @ + Sign(side)]
    IN  IF r1[symbol].current_position_side = side
        THEN [recs |-> r1, exch |-> exch, calls |-> <<>>,
              outcome |-> "returned"]
        ELSE IF c.outcome = "raised" THEN c
        ELSE [recs |-> c.recs,
              exch |-> IF open_out = "fail" THEN c.exch ELSE filled,
              calls |-> Append(c.calls, open),
              outcome |-> IF open_out = "fill" THEN "returned" ELSE "raised"]

ApplyHandler(r) ==
    /\ symbol_position_list' = r.recs
    /\ exchange_position' = r.exch
    /\ oh_calls' = r.calls
    /\ oh_outcome' = r.outcome
    /\ UNCHANGED <<entry, botvars, renkovars, replayvars, mainvars, fetchvars>>

PlaceMarketOpenOrderAfterClose(symbol, side, refresh_ok, close_out, open_out) ==
    /\ entry = "oh"
    /\ ApplyHandler(OHOpenAfterClose(symbol_position_list, exchange_position,
                        symbol, side, refresh_ok, close_out, open_out))

PlaceMarketCloseOrder(symbol, close_out) ==
    /\ entry = "oh"
    /\ ApplyHandler(OHClose(symbol_position_list, exchange_position, symbol,
                            close_out))

\* OrderHandler.send_symbol_position_list_to_discord, lines 222-243.
SendSymbolPositionListToDiscord(refresh_ok) ==
    /\ entry = "oh"
    /\ ApplyHandler([recs |-> IF refresh_ok
                              THEN RefreshFromExchange(exchange_position)
                              ELSE symbol_position_list,
                     exch |-> exchange_position, calls |-> <<>>,
                     outcome |-> IF refresh_ok THEN "returned" ELSE "raised"])

\* --------------------------------------------------- SimulatedOrderHandler

\* SimulatedOrderHandler.place_market_close_order, lines 113-133: no
\* exchange, the record is the position.
SimClose(recs, symbol) ==
    IF recs[symbol].current_position_size_in_quantity = 0
    THEN [recs |-> recs, calls |-> <<>>]
    ELSE [recs |-> [recs EXCEPT ![symbol] = PositionRecord(0)],
          calls |-> <<OrderCall("close", symbol, "none",
                                 recs[symbol].current_position_side, "fill")>>]

\* SimulatedOrderHandler.place_market_open_order_after_close, lines 83-111.
SimOpenAfterClose(recs, symbol, side) ==
    LET c == IF recs[symbol].current_position_size_in_quantity # 0
             THEN SimClose(recs, symbol)
             ELSE [recs |-> recs, calls |-> <<>>]
    IN  IF recs[symbol].current_position_side = side
        THEN [recs |-> recs, calls |-> <<>>]
        ELSE [recs |-> [c.recs EXCEPT ![symbol] = PositionRecord(Sign(side))],
              calls |-> Append(c.calls,
                               OrderCall("open", symbol, side,
                                         c.recs[symbol].current_position_side,
                                         "fill"))]

ApplySim(r) ==
    ApplyHandler([recs |-> r.recs, exch |-> exchange_position,
                  calls |-> r.calls, outcome |-> "returned"])

SimPlaceMarketOpenOrderAfterClose(symbol, side) ==
    /\ entry = "sim"
    /\ ApplySim(SimOpenAfterClose(symbol_position_list, symbol, side))

SimPlaceMarketCloseOrder(symbol) ==
    /\ entry = "sim"
    /\ ApplySim(SimClose(symbol_position_list, symbol))

\* OrderHandler.__init__ reads the positions the account already holds;
\* SimulatedOrderHandler.__init__ starts with no position.
HandlerInit ==
    /\ exchange_position \in [Symbols -> IF entry = "oh" THEN {-1, 0, 1} ELSE {0}]
    /\ symbol_position_list = RefreshFromExchange(exchange_position)
    /\ oh_calls = <<>>
    /\ oh_outcome = "none"

HandlerNext ==
    \/ \E symbol \in Symbols, side \in Sides, refresh_ok \in BOOLEAN,
          close_out \in CallResults, open_out \in CallResults :
          PlaceMarketOpenOrderAfterClose(symbol, side, refresh_ok, close_out,
                                         open_out)
    \/ \E symbol \in Symbols, close_out \in CallResults :
          PlaceMarketCloseOrder(symbol, close_out)
    \/ \E refresh_ok \in BOOLEAN : SendSymbolPositionListToDiscord(refresh_ok)
    \/ \E symbol \in Symbols, side \in Sides :
          SimPlaceMarketOpenOrderAfterClose(symbol, side)
    \/ \E symbol \in Symbols : SimPlaceMarketCloseOrder(symbol)

\* ---------------------------------------------------------- RenkoCalculator

\* Ticker prices, bar closes and the values ATR takes, in ticks.
Prices == {0, 1, 2, 5, 6}

Closes == {0, 1, 6}

AtrValues == {0, 2, 3}

Abs(x) == IF x < 0 THEN -x ELSE x

\* A rounding that drops the fraction.
RoundDown(num, den) == num \div den

\* Python's round(num / den) for num >= 0, den > 0: to the nearest integer,
\* a tie going to the even one.
Round(num, den) ==
    LET q == num \div den
        r == num % den
    IN  IF 2 * r < den THEN q
        ELSE IF 2 * r > den THEN q + 1
        ELSE IF q % 2 = 0 THEN q ELSE q + 1

\* An anchor that starts at the first price itself.
PriceAsAnchor(price, size) == price

\* The first anchor of a series, lines 132-134 and 242: the first price
\* rounded to the brick grid.
InitialAnchor(price, size) == Round(price, size) * size

Brick(o, c, d) == [open |-> o, close |-> c, direction |-> d]

\* A trim that keeps the oldest n bricks.
KeepFirst(s, n) == IF Len(s) > n THEN SubSeq(s, 1, n) ELSE s

KeepLast(s, n) == IF Len(s) > n THEN SubSeq(s, Len(s) - n + 1, Len(s)) ELSE s

\* A brick loop that opens every brick at the anchor it started from.
BricksFromAnchor(anchor, direction, first_size, size, count) ==
    LET sign == IF direction = "up" THEN 1 ELSE -1
    IN  [i \in 1..count |->
            Brick(anchor, anchor + sign * (first_size + (i - 1) * size),
                  direction)]

\* A brick loop that gives every brick the height size, the first included.
BricksOfOneSize(anchor, direction, first_size, size, count) ==
    LET sign == IF direction = "up" THEN 1 ELSE -1
    IN  [i \in 1..count |->
            Brick(anchor + sign * (i - 1) * size, anchor + sign * i * size,
                  direction)]

\* The brick loop, lines 163-180 and 267-300: `count` bricks from `anchor`,
\* the first of height first_size, the others of height size. Turn i of the
\* loop opens where turn i - 1 closed.
NewBricks(anchor, direction, first_size, size, count) ==
    LET sign == IF direction = "up" THEN 1 ELSE -1
        close_of(i) == anchor + sign * (first_size + (i - 1) * size)
    IN  [i \in 1..count |->
            Brick(IF i = 1 THEN anchor ELSE close_of(i - 1), close_of(i),
                  direction)]

\* A builder for which every move reaches the threshold.
AlwaysCrosses(direction, price_diff, threshold) == TRUE

\* Lines 151-153 and 257-259.
Crosses(direction, price_diff, threshold) ==
    \/ direction = "up" /\ price_diff >= threshold
    \/ direction = "down" /\ price_diff <= -threshold

\* A handler that sizes its bricks by the length of the bar window.
SizeFromWindow(sd) ==
    IF sd.renko_brick_size = None THEN None ELSE Some(Len(sd.ohlcv_list) + 1)

\* A handler that builds with a unit brick when the record holds no size.
UnitWhenMissing(sd) ==
    IF sd.renko_brick_size = None THEN Some(1) ELSE sd.renko_brick_size

\* line 227: brick_size = symbol_data.get("renko_brick_size").
BrickSizeOf(sd) == sd.renko_brick_size

\* A builder that emits one brick per price, however far the price went.
OneBrick(price_diff, threshold, size) == 1

\* Lines 154-161 and 260-265: count_additional_bricks.
BrickCount(price_diff, threshold, size) ==
    LET remaining_diff == Abs(price_diff) - threshold
    IN  IF remaining_diff >= 0 THEN 1 + (remaining_diff \div size) ELSE 1

\* A bootstrap that asks the same move of every close.
PlainThreshold(renko_bricks, direction, size) == size

\* set_renko_list_into_symbol_data_list, lines 137-149: the threshold for a
\* close; with no brick yet the last direction is taken to be the price's own.
BootThreshold(renko_bricks, direction, size) ==
    LET last_brick_direction ==
            IF renko_bricks # <<>> THEN Last(renko_bricks).direction
            ELSE direction
    IN  IF last_brick_direction = direction THEN size ELSE 2 * size

\* set_renko_list_into_symbol_data_list, lines 137-180: the bricks one close
\* forms.
BootBricksOf(renko_bricks, last_renko_close, size, current_price) ==
    LET price_diff == current_price - last_renko_close
        direction == IF price_diff > 0 THEN "up" ELSE "down"
        threshold == BootThreshold(renko_bricks, direction, size)
    IN  IF price_diff = 0 THEN <<>>
        ELSE IF Crosses(direction, price_diff, threshold)
        THEN NewBricks(last_renko_close, direction, threshold, size,
                       BrickCount(price_diff, threshold, size))
        ELSE <<>>

\* One price met by a brick builder: the anchor and the direction of the last
\* brick it found (None when there was none), the bricks it formed, and
\* whether the trade signal block ran.
LogEntry(symbol, price, size, anchor, last_dir, formed, signalled) ==
    [symbol |-> symbol, price |-> price, brick_size |-> size,
     anchor |-> anchor, last_direction |-> last_dir, formed |-> formed,
     signalled |-> signalled]

\* set_renko_list_into_symbol_data_list, lines 122-180: the loop over the
\* bars; anchor is None until the first close has been rounded.
RECURSIVE BootFold(_, _, _, _, _, _)
BootFold(symbol, closes, anchor, renko_bricks, size, log) ==
    IF closes = <<>> THEN [renko_list |-> renko_bricks, log |-> log]
    ELSE
    LET met == LogEntry(symbol, Head(closes), size, anchor,
                        IF renko_bricks # <<>>
                        THEN Some(Last(renko_bricks).direction) ELSE None,
                        <<>>, FALSE)
    IN  IF anchor = None
        THEN BootFold(symbol, Tail(closes),
                      Some(InitialAnchor(Head(closes), size)), renko_bricks, size,
                      Append(log, met))
        ELSE LET formed == BootBricksOf(renko_bricks, anchor[1], size,
                                        Head(closes))
             IN  BootFold(symbol, Tail(closes),
                          IF formed = <<>> THEN anchor
                          ELSE Some(Last(formed).close),
                          renko_bricks \o formed, size,
                          Append(log, [met EXCEPT !.formed = formed]))

\* A size rule that asks for atr_period bars only, one bar fewer than
\* line 76 does.
SizeFromPeriodBars(sd, atr) ==
    [sd EXCEPT !.renko_brick_size =
        IF Len(sd.ohlcv_list) < atr_period THEN None ELSE Some(atr)]

\* set_brick_size_into_symbol_data_list, lines 74-106; `atr` stands for the
\* last value talib.ATR returns when there are enough bars.
SetBrickSize(sd, atr) ==
    [sd EXCEPT !.renko_brick_size =
        IF Len(sd.ohlcv_list) < atr_period + 1 THEN None ELSE Some(atr)]

\* set_renko_list_into_symbol_data_list, lines 112-180, for one record: the
\* bricks before trimming, and what each bar met.
BootRun(sd) ==
    IF sd.ohlcv_list = <<>> \/ sd.renko_brick_size \in {None, Some(0)}
    THEN [renko_list |-> <<>>, log |-> <<>>]
    ELSE BootFold(sd.symbol, sd.ohlcv_list, None, <<>>, sd.renko_brick_size[1],
                  <<>>)

\* set_renko_list_into_symbol_data_list, lines 181-183.
SetRenkoList(sd) ==
    [sd EXCEPT !.renko_list = KeepLast(BootRun(sd).renko_list, RenkoKeep)]

RECURSIVE BootLogs(_)
BootLogs(sdl) ==
    IF sdl = <<>> THEN <<>> ELSE BootRun(Head(sdl)).log \o BootLogs(Tail(sdl))

\* set_ohlcv_list_into_symbol_data_list, lines 62-67: the record appended.
\* Keys the dict does not hold yet read as None through .get().
NewSymbolData(symbol, closes) ==
    [symbol |-> symbol, ohlcv_list |-> closes, renko_brick_size |-> None,
     renko_list |-> <<>>, last_renko_close |-> None]

\* lines 221-223: the first record of the symbol, 0 when there is none.
Lookup(sdl, symbol) ==
    IF \E i \in 1..Len(sdl) : sdl[i].symbol = symbol
    THEN CHOOSE i \in 1..Len(sdl) :
            /\ sdl[i].symbol = symbol
            /\ \A j \in 1..(i - 1) : sdl[j].symbol # symbol
    ELSE 0

\* backtest.py fetch_historical_data, lines 44-71: the symbols that have a
\* CSV are loaded in SYMBOL_LIST order, then sized, then bricked.
RECURSIVE LoadAll(_, _, _)
LoadAll(i, closes_of, sdl) ==
    IF i > Len(symbol_list) THEN sdl
    ELSE LoadAll(i + 1, closes_of,
                 IF closes_of[symbol_list[i]] = <<>> THEN sdl
                 ELSE Append(sdl, NewSymbolData(symbol_list[i],
                                                closes_of[symbol_list[i]])))

\* The bar lists of a run: at most MaxInputs bars over the two symbols, a
\* symbol with none having no CSV.
BarLists ==
    UNION {{[s \in Symbols |-> IF s = symbol_list[1] THEN c[1] ELSE c[2]] :
               c \in [1..nn[1] -> Closes] \X [1..nn[2] -> Closes]} :
              nn \in {mm \in (0..MaxInputs) \X (0..MaxInputs) :
                        mm[1] + mm[2] <= MaxInputs}}

RECURSIVE BarCount(_)
BarCount(sdl) ==
    IF sdl = <<>> THEN 0 ELSE Len(Head(sdl).ohlcv_list) + BarCount(Tail(sdl))

\* The values talib.ATR can end on for bars with these closes: each true range
\* is at least the move between consecutive closes, so the average is zero
\* only for bars that never moved.
PossibleAtr(closes) ==
    IF \A j \in DOMAIN closes : closes[j] = closes[1]
    THEN AtrValues
    ELSE AtrValues \ {0}

FetchHistoricalData ==
    /\ entry = "renko"
    /\ renko_phase = "boot"
    /\ \E closes_of \in BarLists, atr_of \in [Symbols -> AtrValues] :
          /\ \A symbol \in Symbols :
                atr_of[symbol] \in PossibleAtr(closes_of[symbol])
          /\ LET loaded == LoadAll(1, closes_of, symbol_data_list)
                 sized == [i \in 1..Len(loaded) |->
                             SetBrickSize(loaded[i], atr_of[loaded[i].symbol])]
             IN  /\ symbol_data_list' =
                       [i \in 1..Len(sized) |-> SetRenkoList(sized[i])]
                 /\ renko_log' = BootLogs(sized)
    /\ renko_phase' = "live"
    /\ UNCHANGED <<entry, botvars, ohvars, discord_client, order_handler, ticks,
                   renko_calls, renko_outcome, renko_skipped, renko_failed,
                   replayvars, mainvars, fetchvars>>

\* RenkoCalculator.set_ohlcv_list_into_symbol_data_list(symbol,
\* candlestick_list), lines 38-67, called on its own with a list of one bar
\* by a caller that loads bars as they come: line 62 appends a record
\* whether or not the symbol has one.
SetOhlcvList(symbol, close) ==
    /\ entry = "load"
    /\ BarCount(symbol_data_list) + 1 <= MaxInputs
    /\ symbol_data_list' =
          Append(symbol_data_list, NewSymbolData(symbol, <<close>>))
    /\ UNCHANGED <<entry, botvars, ohvars, discord_client, order_handler,
                   renko_phase, ticks, renko_log, renko_calls, renko_outcome,
                   renko_skipped, renko_failed, replayvars, mainvars,
                   fetchvars>>

\* The methods each order handler class defines.
HandlerMethods(kind) ==
    IF kind = "OrderHandler"
    THEN {"set_account_total_balance", "set_symbol_data_to_position_list",
          "set_account_data_to_position_list",
          "place_market_open_order_after_close", "place_market_close_order",
          "send_symbol_position_list_to_discord"}
    ELSE IF kind = "SimulatedOrderHandler"
    THEN {"set_symbol_data_to_position_list",
          "place_market_open_order_after_close", "place_market_close_order"}
    ELSE {}

\* What send_renko_plot_to_discord can do, lines 307-355: DiscordClient
\* catches what its request raises; with discord_client None the attribute
\* access self.discord_client.send_image raises.
PlotResults(client) ==
    IF client = "none" THEN {"raised"} ELSE {"sent", "send_failed"}

RenkoCall(symbol, call, result) ==
    [symbol |-> symbol, call |-> call, result |-> result]

\* handle_new_ticker_data, lines 284-297: the try block run for a brick whose
\* direction differs from the last one's.  A method the handler object does
\* not define raises AttributeError, which the except clause logs.
TradeCalls(symbol, handler, plot_out) ==
    LET plot == RenkoCall(symbol, "send_renko_plot_to_discord", plot_out)
        close == "place_market_close_order_if_position_opened"
        open == "place_market_open_order"
    IN  IF plot_out = "raised" THEN <<plot>>
        ELSE IF close \notin HandlerMethods(handler)
        THEN <<plot, RenkoCall(symbol, close, "AttributeError")>>
        ELSE IF open \notin HandlerMethods(handler)
        THEN <<plot, RenkoCall(symbol, close, "called"),
               RenkoCall(symbol, open, "AttributeError")>>
        ELSE <<plot, RenkoCall(symbol, close, "called"),
               RenkoCall(symbol, open, "called")>>

\* The calls of a try block that raised.
AnyFailed(calls) ==
    \E k \in DOMAIN calls : calls[k].result \in {"raised", "AttributeError"}

\* A signal block whose errors leave the handler.
FailureEscapes(calls) == AnyFailed(calls)

\* Lines 296-297: `except Exception` logs what the try block raised and
\* re-raises nothing.
Escapes(calls) == FALSE

\* A builder that asks the same move of a reversal as of a continuation.
SingleThreshold(last_brick_direction, direction, brick_size) == brick_size

\* handle_new_ticker_data, lines 250-255.
LiveThreshold(last_brick_direction, direction, brick_size) ==
    IF last_brick_direction = Some(direction) \/ last_brick_direction = None
    THEN brick_size
    ELSE 2 * brick_size

\* handle_new_ticker_data, lines 246-300: the bricks one price forms.
LiveBricksOf(last_renko_close, last_brick_direction, brick_size, current_price) ==
    LET price_diff == current_price - last_renko_close
        direction == IF price_diff > 0 THEN "up" ELSE "down"
        threshold == LiveThreshold(last_brick_direction, direction, brick_size)
    IN  IF price_diff = 0 THEN <<>>
        ELSE IF Crosses(direction, price_diff, threshold)
        THEN NewBricks(last_renko_close, direction, threshold, brick_size,
                       BrickCount(price_diff, threshold, brick_size))
        ELSE <<>>

\* A signal block that runs for every price that forms a brick.
SignalsOnEveryBrick(last_brick_direction, formed, handler) ==
    formed # <<>> /\ handler # "none"

\* lines 284-288: only the first brick of the loop can meet a last direction
\* that differs, since line 298 sets last_brick_direction to direction.
Signals(last_brick_direction, formed, handler) ==
    /\ formed # <<>>
    /\ last_brick_direction # None
    /\ last_brick_direction # Some(formed[1].direction)
    /\ handler # "none"

\* A brick loop that never updates the direction it compares with.
StaleDirection(last_brick_direction, formed, j) == last_brick_direction

\* The last direction turn j of the brick loop meets at lines 284-288: the
\* stored one on the first turn, then the direction line 298 set on the turn
\* before.
DirectionMet(last_brick_direction, formed, j) ==
    IF j = 1 THEN last_brick_direction ELSE Some(formed[j - 1].direction)

\* The turns of the brick loop, lines 267-300, that run the trade signal
\* block.
SignalTurns(last_brick_direction, formed, handler) ==
    {j \in DOMAIN formed :
        Signals(DirectionMet(last_brick_direction, formed, j), <<formed[j]>>,
                handler)}

\* The calls of n runs of the trade signal block, one after the other.
Repeated(calls, n) ==
    [k \in 1..(n * Len(calls)) |-> calls[((k - 1) % Len(calls)) + 1]]

\* handle_new_ticker_data, lines 212-305, for one ticker of the list.  w
\* carries the symbol table, the calls made, the log and whether an
\* exception has left the handler; plot_out is what the notifier does in this
\* call.
HandleTicker(w, t, plot_out, handler) ==
    LET i == Lookup(w.sdl, t.contract)
        sd == w.sdl[i]
        size == BrickSizeOf(sd)[1]
        renko_bricks == sd.renko_list
        last_renko_close == IF renko_bricks # <<>>
                            THEN Some(Last(renko_bricks).close)
                            ELSE sd.last_renko_close
        last_brick_direction == IF renko_bricks # <<>>
                                THEN Some(Last(renko_bricks).direction)
                                ELSE None
        formed == LiveBricksOf(last_renko_close[1], last_brick_direction, size,
                               t.last[1])
        signalled == Signals(last_brick_direction, formed, handler)
        entry_of(f, sg) == LogEntry(t.contract, t.last[1], size,
                                    last_renko_close, last_brick_direction, f, sg)
    IN  IF w.raised \/ t.contract \notin Symbols \/ t.last = None \/ i = 0
        THEN w
        ELSE IF BrickSizeOf(sd) = None
        THEN [w EXCEPT !.skipped = @ \cup {t.contract}]
        \* round(current_price / 0.0) and remaining_diff // 0.0 raise
        \* ZeroDivisionError, which nothing in the handler catches
        ELSE IF size = 0 /\ (last_renko_close = None \/ t.last # last_renko_close)
        THEN [w EXCEPT !.raised = TRUE]
        ELSE IF last_renko_close = None
        THEN [w EXCEPT !.sdl[i].last_renko_close =
                           Some(InitialAnchor(t.last[1], size)),
                       !.log = Append(@, entry_of(<<>>, FALSE))]
        ELSE IF formed = <<>>
        THEN [w EXCEPT !.log = Append(@, entry_of(<<>>, FALSE))]
        \* an error leaving the try block of the first brick would end the
        \* call with that brick appended (line 282) and nothing after it
        ELSE IF signalled /\ Escapes(TradeCalls(t.contract, handler, plot_out))
        THEN [w EXCEPT
                !.sdl[i].renko_list = Append(renko_bricks, formed[1]),
                !.calls = @ \o TradeCalls(t.contract, handler, plot_out),
                !.log = Append(@, entry_of(<<formed[1]>>, TRUE)),
                !.raised = TRUE]
        ELSE [w EXCEPT
                !.sdl[i].renko_list = KeepLast(renko_bricks \o formed, RenkoKeep),
                !.sdl[i].last_renko_close = Some(Last(formed).close),
                !.calls = @ \o Repeated(
                              TradeCalls(t.contract, handler, plot_out),
                              Cardinality(SignalTurns(last_brick_direction,
                                                      formed, handler))),
                !.log = Append(@, entry_of(formed, signalled))]

\* A handler that stops after the first ticker of the list.
HandleFirst(w, batch, plot_out, handler) ==
    IF batch = <<>> THEN w ELSE HandleTicker(w, Head(batch), plot_out, handler)

RECURSIVE HandleAll(_, _, _, _)
HandleAll(w, batch, plot_out, handler) ==
    IF batch = <<>> THEN w
    ELSE HandleAll(HandleTicker(w, Head(batch), plot_out, handler), Tail(batch),
                   plot_out, handler)

\* An element of ticker_data_list: a FuturesTicker with its contract and its
\* last price (None when float() cannot parse it), or an object of another
\* shape.
Ticker(contract, last) ==
    [contract |-> contract, last |-> last, is_ticker |-> TRUE]

NotATicker == [contract |-> "", last |-> None, is_ticker |-> FALSE]

\* handle_new_ticker_data, lines 193-210, then the loop.  The check of lines
\* 193-200 looks at the first element only and returns; the comprehension
\* of lines 203-210 reads .contract of every element, and an element without
\* it raises AttributeError before any ticker is handled.
HandleBatch(w, batch, plot_out, handler) ==
    IF batch = <<>> \/ ~batch[1].is_ticker THEN w
    ELSE IF \E j \in DOMAIN batch : ~batch[j].is_ticker
    THEN [w EXCEPT !.raised = TRUE]
    ELSE HandleAll(w, batch, plot_out, handler)

\* A FuturesTicker of the feed: a contract of SYMBOL_LIST with a last price
\* that parses or does not, or a contract outside the list.
Tickers ==
    {Ticker(c, l) : c \in Symbols, l \in {None} \cup {Some(x) : x \in Prices}}
    \cup {Ticker("XRP_USDT", Some(1)), NotATicker}

\* RenkoCalculator.handle_new_ticker_data(ticker_data_list), lines 185-305.
HandleNewTickerData ==
    /\ entry = "renko"
    /\ renko_phase = "live"
    /\ \E n \in 1..MaxBatch, plot_out \in PlotResults(discord_client) :
       \E batch \in [1..n -> Tickers] :
          /\ BarCount(symbol_data_list) + ticks + n <= MaxInputs
          /\ LET w == HandleBatch([sdl |-> symbol_data_list, calls |-> <<>>,
                                   log |-> <<>>, raised |-> FALSE,
                                   skipped |-> {}],
                                  batch, plot_out, order_handler)
             IN  /\ symbol_data_list' = w.sdl
                 /\ renko_calls' = w.calls
                 /\ renko_log' = w.log
                 /\ renko_outcome' = IF w.raised THEN "raised" ELSE "returned"
                 /\ renko_skipped' = w.skipped
                 /\ renko_failed' = (renko_failed \/ AnyFailed(renko_calls))
          /\ ticks' = ticks + n
    /\ UNCHANGED <<entry, botvars, ohvars, discord_client, order_handler,
                   renko_phase, replayvars, mainvars, fetchvars>>

\* RenkoCalculator.__init__, lines 30-36, as backtest.py (no notifier, the
\* simulated handler) and the live wiring (DiscordClient, OrderHandler)
\* construct it, and with the default order_handler=None.
RenkoConfigs ==
    {<<"none", "SimulatedOrderHandler">>, <<"DiscordClient", "OrderHandler">>,
     <<"DiscordClient", "none">>}

RenkoInit ==
    /\ symbol_data_list = <<>>
    /\ \E cfg \in IF entry = "renko" THEN RenkoConfigs ELSE {<<"none", "none">>} :
          /\ discord_client = cfg[1]
          /\ order_handler = cfg[2]
    /\ renko_phase = "boot"
    /\ ticks = 0
    /\ renko_log = <<>>
    /\ renko_calls = <<>>
    /\ renko_outcome = "none"
    /\ renko_skipped = {}
    /\ renko_failed = FALSE

RenkoNext ==
    \/ FetchHistoricalData
    \/ HandleNewTickerData
    \/ \E symbol \in Symbols, close \in Closes : SetOhlcvList(symbol, close)

\* ------------------------------------------------- one sequence, each path

\* A record with the brick size set and nothing built yet.
ResetRecord(closes, size) ==
    [NewSymbolData(symbol_list[1], closes) EXCEPT !.renko_brick_size = Some(size)]

\* handle_new_ticker_data called once with the tickers of `prices`, no order
\* handler attached: the symbol table it leaves and what each price met.
LiveRun(sdl, prices) ==
    HandleAll([sdl |-> sdl, calls |-> <<>>, log |-> <<>>, raised |-> FALSE,
               skipped |-> {}],
              [j \in 1..Len(prices) |-> Ticker(symbol_list[1], Some(prices[j]))],
              "sent", "none")

LiveCall(sdl, prices) == LiveRun(sdl, prices).sdl

\* The bricks of a symbol in a log, in the order they were formed.
RECURSIVE FormedIn(_, _)
FormedIn(log, symbol) ==
    IF log = <<>> THEN <<>>
    ELSE (IF Head(log).symbol = symbol THEN Head(log).formed ELSE <<>>)
             \o FormedIn(Tail(log), symbol)

\* A price far enough from zero for one move to form more bricks than a
\* history keeps, and the sequences that go back and forth between the two.
FarPrice == 2 * RenkoKeep + 2

FarRuns == UNION {[1..n -> {0, FarPrice}] : n \in 1..MaxReplay}

\* set_renko_list_into_symbol_data_list over the whole sequence as bar closes.
ReplayBootstrap ==
    /\ entry = "replay"
    /\ replay.boot = None
    /\ LET sd == ResetRecord(replay.closes, replay.size)
       IN  replay' = [replay EXCEPT
                        !.boot = Some(SetRenkoList(sd).renko_list),
                        !.boot_formed = BootRun(sd).renko_list]
    /\ UNCHANGED <<entry, botvars, ohvars, renkovars, mainvars, fetchvars>>

\* handle_new_ticker_data called once with the whole sequence.
ReplayBatch ==
    /\ entry = "replay"
    /\ replay.batch = None
    /\ LET w == LiveRun(<<ResetRecord(<<>>, replay.size)>>, replay.closes)
       IN  replay' = [replay EXCEPT
                        !.batch = Some(w.sdl[1].renko_list),
                        !.batch_record = w.sdl[1],
                        !.batch_raised = w.raised,
                        !.batch_formed = FormedIn(w.log, symbol_list[1])]
    /\ UNCHANGED <<entry, botvars, ohvars, renkovars, mainvars, fetchvars>>

\* handle_new_ticker_data called with the next price of the sequence alone,
\* by a calculator wired as the live one is (DiscordClient, OrderHandler);
\* single_calls holds the calls this price led to.
ReplayOne ==
    /\ entry = "replay"
    /\ replay.fed < Len(replay.closes)
    /\ LET w == HandleAll([sdl |-> replay.single, calls |-> <<>>,
                           log |-> <<>>, raised |-> FALSE, skipped |-> {}],
                          <<Ticker(symbol_list[1],
                                   Some(replay.closes[replay.fed + 1]))>>,
                          "sent", "OrderHandler")
       IN  replay' = [replay EXCEPT
                        !.single = w.sdl,
                        !.single_formed = @ \o FormedIn(w.log, symbol_list[1]),
                        !.single_calls = w.calls,
                        !.fed = @ + 1]
    /\ UNCHANGED <<entry, botvars, ohvars, renkovars, mainvars, fetchvars>>

InsertAt(seq, pos, x) ==
    SubSeq(seq, 1, pos - 1) \o <<x>> \o SubSeq(seq, pos, Len(seq))

\* The samples that cannot be used: a ticker whose price does not parse, and
\* an object that is not a ticker.
Malformed == {Ticker(symbol_list[1], None), NotATicker}

\* handle_new_ticker_data called once with the whole sequence and one
\* malformed sample put somewhere into it; run when the other paths are done.
ReplayDirty ==
    /\ entry = "replay"
    /\ replay.batch # None
    /\ replay.boot # None
    /\ replay.fed = Len(replay.closes)
    /\ replay.dirty = None
    /\ \E pos \in 1..(Len(replay.closes) + 1), bad \in Malformed :
          LET clean == [j \in 1..Len(replay.closes) |->
                          Ticker(symbol_list[1], Some(replay.closes[j]))]
              w == HandleBatch([sdl |-> <<ResetRecord(<<>>, replay.size)>>,
                                calls |-> <<>>, log |-> <<>>, raised |-> FALSE,
                                skipped |-> {}],
                               InsertAt(clean, pos, bad), "sent", "none")
          IN  replay' = [replay EXCEPT
                           !.dirty = Some([bad |-> bad, pos |-> pos,
                                           record |-> w.sdl[1],
                                           raised |-> w.raised])]
    /\ UNCHANGED <<entry, botvars, ohvars, renkovars, mainvars, fetchvars>>

ReplayInit ==
    IF entry = "replay"
    THEN \E closes \in UNION {[1..n -> Prices] : n \in 1..MaxReplay}
                            \cup FarRuns,
            size \in AtrValues :
            replay = [closes |-> closes, size |-> size, boot |-> None,
                      batch |-> None,
                      single |-> <<ResetRecord(<<>>, size)>>, fed |-> 0,
                      boot_formed |-> <<>>, batch_formed |-> <<>>,
                      single_formed |-> <<>>, single_calls |-> <<>>,
                      batch_record |-> ResetRecord(<<>>, size),
                      batch_raised |-> FALSE, dirty |-> None]
    ELSE replay = [closes |-> <<>>, size |-> 0, boot |-> None, batch |-> None,
                   single |-> <<>>, fed |-> 0, boot_formed |-> <<>>,
                   batch_formed |-> <<>>, single_formed |-> <<>>,
                   single_calls |-> <<>>,
                   batch_record |-> ResetRecord(<<>>, 0),
                   batch_raised |-> FALSE, dirty |-> None]

ReplayNext == ReplayBootstrap \/ ReplayBatch \/ ReplayOne \/ ReplayDirty

\* ------------------------------------------------------------ live loop

Loops == {"main.py", "watch_trade.py"}

\* The files that test the credentials with fetch_balance.
Connectors == {"main.py", "exchange_config.py"}

\* What an awaited exchange call (fetch_balance, watch_trades) can raise.
\* ccxt.AuthenticationError is a subclass of ccxt.ExchangeError; "Exception"
\* stands for any error outside the ccxt hierarchy.
FeedErrors == {"NetworkError", "ExchangeError", "AuthenticationError",
               "Exception"}

\* The first except clause of the three (NetworkError, ExchangeError,
\* Exception) that matches a class.
FirstMatch(exc) ==
    IF exc = "NetworkError" THEN "NetworkError"
    ELSE IF exc \in {"ExchangeError", "AuthenticationError"} THEN "ExchangeError"
    ELSE "Exception"

\* The except clause that takes an error: main.py lines 161, 166, 171;
\* watch_trade.py has the one clause of line 29.
ExceptClause(loop, exc) ==
    IF loop = "main.py" THEN FirstMatch(exc) ELSE "Exception"

\* The except clause that takes an error of fetch_balance: main.py has the
\* one clause of line 51, exchange_config.py lines 33, 36, 39.
ConnectClause(file, exc) ==
    IF file = "main.py" THEN "Exception" ELSE FirstMatch(exc)

\* balance = await exchange_authenticated.fetch_balance(): main.py lines
\* 45-56 and get_exchange_authenticated lines 22-44. Every clause ends the
\* function: main.py closes and returns; exchange_config.py sleeps and falls
\* off the end (None), or closes and returns None.
FetchBalance ==
    /\ entry = "main"
    /\ main_pc = "connect"
    /\ \E out \in {"ok"} \cup FeedErrors :
          IF out = "ok"
          THEN /\ main_pc' = "connected"
               /\ UNCHANGED <<main_caught, main_error>>
          ELSE /\ main_pc' = "returned"
               /\ main_caught' = ConnectClause(main_loop, out)
               /\ main_error' = out
    /\ UNCHANGED <<entry, botvars, ohvars, renkovars, replayvars, fetchvars, main_loop>>

\* A loop that an error ends, as the historical fetch of main.py lines
\* 116-122 does with its break.
BreakOnError(loop, exc) == "left"

\* Where an except clause leaves the loop: each of them sleeps 5 seconds and
\* falls through to the next turn of `while True`.
AfterError(loop, exc) == "retry_wait"

\* trades = await exchange_authenticated.watch_trades(SYMBOL)
WatchTrades ==
    /\ entry = "main"
    /\ main_pc = "watch"
    /\ \E out \in {"trades", "empty"} \cup FeedErrors :
          IF out \in FeedErrors
          THEN /\ main_pc' = AfterError(main_loop, out)
               /\ main_caught' = ExceptClause(main_loop, out)
               /\ main_error' = out
          ELSE /\ main_pc' = IF out = "trades" THEN "body" ELSE "pause"
               /\ main_caught' = "none"
               /\ main_error' = "none"
    /\ UNCHANGED <<entry, botvars, ohvars, renkovars, replayvars, fetchvars, main_loop>>

\* The body for a non-empty list of trades. main.py line 153 calls
\* renko_calc.process_new_price, which RenkoCalculator does not define: the
\* AttributeError goes to `except Exception`. watch_trade.py logs the trades.
ProcessTrades ==
    /\ entry = "main"
    /\ main_pc = "body"
    /\ IF main_loop = "main.py"
       THEN /\ main_pc' = AfterError(main_loop, "AttributeError")
            /\ main_caught' = ExceptClause(main_loop, "AttributeError")
            /\ main_error' = "AttributeError"
       ELSE /\ main_pc' = "pause"
            /\ UNCHANGED <<main_caught, main_error>>
    /\ UNCHANGED <<entry, botvars, ohvars, renkovars, replayvars, fetchvars, main_loop>>

\* await asyncio.sleep(0.01), then the next turn of the loop.
ShortSleep ==
    /\ entry = "main"
    /\ main_pc = "pause"
    /\ main_pc' = "watch"
    /\ UNCHANGED <<entry, botvars, ohvars, renkovars, replayvars, fetchvars, main_loop,
                   main_caught, main_error>>

\* await asyncio.sleep(5) in an except clause, then the next turn of the loop.
RetrySleep ==
    /\ entry = "main"
    /\ main_pc = "retry_wait"
    /\ main_pc' = "watch"
    /\ UNCHANGED <<entry, botvars, ohvars, renkovars, replayvars, fetchvars, main_loop,
                   main_caught, main_error>>

\* The operator stops the process while the loop waits on an await:
\* KeyboardInterrupt is not an Exception, so no clause of the loop takes it.
KeyboardInterrupt ==
    /\ entry = "main"
    /\ main_pc \in {"watch", "pause", "retry_wait"}
    /\ main_pc' = "interrupted"
    /\ UNCHANGED <<entry, botvars, ohvars, renkovars, replayvars, fetchvars, main_loop,
                   main_caught, main_error>>

\* The lane starts where one of its pieces of code starts: at the
\* credential test, or at the entry of a live loop.
MainInit ==
    /\ IF entry = "main"
       THEN \/ main_loop \in Connectors /\ main_pc = "connect"
            \/ main_loop \in Loops /\ main_pc = "watch"
       ELSE main_loop = "main.py" /\ main_pc = "watch"
    /\ main_caught = "none"
    /\ main_error = "none"

MainNext ==
    \/ FetchBalance
    \/ WatchTrades \/ ProcessTrades \/ ShortSleep \/ RetrySleep
    \/ KeyboardInterrupt

\* ------------------------------------------------------- historical fetch

Fetchers == {"main.py", "ohlcv_loader.py", "gate_client.py"}

\* The page an exchange holding bars 1..history (by timestamp) answers with:
\* the `limit` bars just older than `boundary`, oldest first.
Page(history, boundary, limit) ==
    LET newest == IF boundary - 1 < history THEN boundary - 1 ELSE history
        oldest == IF newest - limit + 1 > 1 THEN newest - limit + 1 ELSE 1
    IN  [j \in 1..(newest - oldest + 1) |-> oldest + j - 1]

Min(a, b) == IF a < b THEN a ELSE b

\* main.py lines 116-122, ohlcv_loader.py lines 56-61: the except clause
\* sleeps 5 seconds and breaks.  gate_client.py catches nothing: the
\* HTTPError of line 166 leaves get_futures_candlesticks_bulk.
AfterFetchError(f) == IF f.file = "gate_client.py" THEN "raised" ELSE "done"

\* A loop that drops the page it was answered with.
DropPage(page, all) == all

\* main.py line 103, ohlcv_loader.py line 47, gate_client.py line 191.
PutBefore(page, all) == page \o all

\* One turn of the while loop with the request failing.
FetchFails ==
    /\ entry = "fetch"
    /\ fetch.pc = "loop"
    /\ fetch' = [fetch EXCEPT !.pc = AfterFetchError(fetch),
                              !.requests = Append(@, "error"),
                              !.result = IF AfterFetchError(fetch) = "done"
                                         THEN fetch.all ELSE <<>>]
    /\ UNCHANGED <<entry, botvars, ohvars, renkovars, replayvars, mainvars>>

\* One turn of the while loop with the request answered: main.py lines
\* 81-115, ohlcv_loader.py lines 30-54, gate_client.py lines 187-203, then
\* the loop condition and, once the loop is over, the value handed back
\* (gate_client.py line 205 cuts it to total_limit).
FetchPage ==
    /\ entry = "fetch"
    /\ fetch.pc = "loop"
    /\ LET boundary == IF fetch.all = <<>> THEN fetch.history + 1
                       ELSE fetch.all[1]
           page == Page(fetch.history, boundary, fetch.limit)
           all == IF page = <<>> THEN fetch.all ELSE PutBefore(page, fetch.all)
           remain == fetch.total - Len(all)
           over == \/ page = <<>>
                   \/ Len(page) < limit_per_request
                   \/ fetch.file = "gate_client.py" /\ remain < 1
                   \/ Len(all) >= fetch.total
           result == IF fetch.file = "gate_client.py"
                     THEN SubSeq(all, 1, Min(Len(all), fetch.total))
                     ELSE all
       IN  fetch' = [fetch EXCEPT
                       !.all = all,
                       !.pages = IF page = <<>> THEN @ ELSE Append(@, page),
                       !.requests = Append(@, IF page = <<>> THEN "empty"
                                              ELSE "page"),
                       !.limit = IF fetch.file = "gate_client.py" /\ ~over
                                 THEN Min(limit_per_request, remain) ELSE @,
                       !.pc = IF over THEN "done" ELSE "loop",
                       !.result = IF over THEN result ELSE <<>>]
    /\ UNCHANGED <<entry, botvars, ohvars, renkovars, replayvars, mainvars>>

\* The state at the first test of the while condition: nothing fetched, a
\* configured count of at least one bar.
FetchInit ==
    IF entry = "fetch"
    THEN \E file \in Fetchers, total \in 1..MaxTotal, history \in 0..MaxHistory :
            fetch = [file |-> file, total |-> total, history |-> history,
                     limit |-> IF file = "gate_client.py"
                               THEN Min(limit_per_request, total)
                               ELSE limit_per_request,
                     all |-> <<>>, pages |-> <<>>, requests |-> <<>>,
                     pc |-> "loop", result |-> <<>>]
    ELSE fetch = [file |-> "main.py", total |-> 1, history |-> 0,
                  limit |-> limit_per_request, all |-> <<>>, pages |-> <<>>,
                  requests |-> <<>>, pc |-> "loop", result |-> <<>>]

FetchNext == FetchFails \/ FetchPage

\* ---------------------------------------------------------- specification

Init ==
    /\ entry \in Entries
    /\ BotInit
    /\ HandlerInit
    /\ RenkoInit
    /\ ReplayInit
    /\ MainInit
    /\ FetchInit

Next ==
    BotNext \/ HandlerNext \/ RenkoNext \/ ReplayNext \/ MainNext \/ FetchNext

Spec == Init /\ [][Next]_vars

\* The event loop resumes a coroutine whose sleep has run out, and the body
\* of a turn runs to its end; the feed itself may stay silent for ever.  A
\* request for historical bars is answered or fails.
FairSpec ==
    /\ Spec
    /\ WF_vars(RetrySleep) /\ WF_vars(ShortSleep) /\ WF_vars(ProcessTrades)
    /\ WF_vars(FetchNext)

\* ------------------------------------------------------------- properties

IsOpenOrder(o) == o \in {"long", "short"}

IsCloseOrder(o) == o \in {"close_long", "close_short"}

Filled(result) == result \in {"fill", "fill_noprice"}

OppositeSide(side) == IF side = "buy" THEN "sell" ELSE "buy"

\* Indices of the log entries whose first brick reverses the last brick's
\* direction.
ReversalEntries(symbol) ==
    {k \in DOMAIN renko_log :
        /\ renko_log[k].symbol = symbol
        /\ renko_log[k].formed # <<>>
        /\ renko_log[k].last_direction # None
        /\ renko_log[k].last_direction # Some(renko_log[k].formed[1].direction)}

CallsOf(symbol, call) ==
    {i \in DOMAIN renko_calls :
        renko_calls[i].symbol = symbol /\ renko_calls[i].call = call}

\* C1: when the close of a reversal fails, no open is issued after it and
\* the recorded side is still the side recorded when the close was issued.
C1_FailedCloseAbortsOpen ==
    /\ \A i \in DOMAIN bot_calls :
          IsCloseOrder(bot_calls[i].order) /\ bot_calls[i].result = "fail"
          => /\ \A j \in (i + 1)..Len(bot_calls) : ~IsOpenOrder(bot_calls[j].order)
             /\ i = Len(bot_calls) => position = bot_calls[i].side_before
    /\ \A i \in DOMAIN oh_calls :
          oh_calls[i].op = "close" /\ oh_calls[i].result # "fill"
          => /\ \A j \in (i + 1)..Len(oh_calls) : oh_calls[j].op # "open"
             /\ symbol_position_list[oh_calls[i].symbol].current_position_side
                  = oh_calls[i].recorded

\* C2: an open that fills never finds the opposite side recorded: the record
\* goes from one side to the other only through Flat.
C2_NoDirectFlip ==
    /\ \A i \in DOMAIN bot_calls :
          Filled(bot_calls[i].result)
          => /\ bot_calls[i].order = "long" => bot_calls[i].side_before # "short"
             /\ bot_calls[i].order = "short" => bot_calls[i].side_before # "long"
    /\ \A i \in DOMAIN oh_calls :
          oh_calls[i].op = "open" /\ oh_calls[i].result # "fail"
          => oh_calls[i].recorded # OppositeSide(oh_calls[i].side)

\* C3: calls are issued one at a time, each after the one before has
\* answered, and no close is issued after an open of the same reversal.
C3_CloseThenOpenInOrder ==
    /\ \A i \in 1..(Len(bot_calls) - 1) : bot_calls[i].result # "pending"
    /\ \A i \in DOMAIN bot_calls : \A j \in (i + 1)..Len(bot_calls) :
          ~(IsOpenOrder(bot_calls[i].order) /\ IsCloseOrder(bot_calls[j].order))
    /\ \A i \in DOMAIN oh_calls : \A j \in (i + 1)..Len(oh_calls) :
          ~(oh_calls[i].op = "open" /\ oh_calls[j].op = "close")
    /\ \A i \in DOMAIN renko_calls :
          renko_calls[i].call = "place_market_open_order"
          => /\ i > 1
             /\ renko_calls[i - 1].symbol = renko_calls[i].symbol
             /\ renko_calls[i - 1].call = "place_market_close_order_if_position_opened"
             /\ renko_calls[i - 1].result = "called"

\* The brick builder runs its signal block, and so attempts order calls, at
\* most once per price whose first brick reverses the last brick's direction.
RenkoSignalsOnlyOnReversal ==
    \A symbol \in Symbols :
       /\ Cardinality(CallsOf(symbol, "send_renko_plot_to_discord"))
            <= Cardinality(ReversalEntries(symbol))
       /\ \A i \in DOMAIN renko_calls :
             /\ renko_calls[i].symbol = symbol
             /\ renko_calls[i].call # "send_renko_plot_to_discord"
             => ReversalEntries(symbol) # {}

\* C4 as stated: an order call is made only for a brick whose direction
\* differs from the direction of the brick before it, never for the first.
C4_OrdersOnlyOnDirectionChange ==
    /\ bot_calls # <<>>
       => /\ Len(confirmed_bricks_history) >= 2
          /\ Last(confirmed_bricks_history)
               # confirmed_bricks_history[Len(confirmed_bricks_history) - 1]
    /\ RenkoSignalsOnlyOnReversal

\* C4 as the code has it: the brick builder attempts order calls only for a
\* brick that reverses the last brick's direction (never for the first brick
\* or a same-direction one); TradingBot opens a side only on a brick that
\* completes three bricks of that direction and closes a side only on a brick
\* of the opposite direction.
C4_OrdersOnlyOnTheirSignal ==
    /\ RenkoSignalsOnlyOnReversal
    /\ \A i \in DOMAIN bot_calls :
          /\ Len(confirmed_bricks_history) >= PatternLen
          /\ bot_calls[i].order = "long" => AllDir(confirmed_bricks_history, "up")
          /\ bot_calls[i].order = "short" => AllDir(confirmed_bricks_history, "down")
          /\ bot_calls[i].order = "close_long"
             => Last(confirmed_bricks_history) = "down"
          /\ bot_calls[i].order = "close_short"
             => Last(confirmed_bricks_history) = "up"

\* A reversal brick for which the builder attempted an order call.
C4_Witness ==
    \E symbol \in Symbols :
       /\ renko_outcome = "returned"
       /\ ReversalEntries(symbol) # {}
       /\ CallsOf(symbol, "place_market_close_order_if_position_opened") # {}

\* C5: a reversal handled while the symbol is Flat issues the open of the
\* new side; an open is issued from Flat only, directly after the close that
\* made it Flat when there was a position.
C5_ReversalOrderTable ==
    /\ renko_outcome # "none" /\ order_handler # "none"
       => \A symbol \in Symbols :
             /\ ReversalEntries(symbol) # {}
             /\ symbol_position_list[symbol].current_position_side = "none"
             => \E i \in CallsOf(symbol, "place_market_open_order") :
                   renko_calls[i].result = "called"
    /\ \A i \in DOMAIN oh_calls :
          oh_calls[i].op = "open"
          => /\ oh_calls[i].recorded = "none"
             /\ i > 1 => /\ oh_calls[i - 1].op = "close"
                         /\ oh_calls[i - 1].result = "fill"

\* C6: when the close of a reversal is filled and the open that follows it
\* fails, the recorded side is Flat.
C6_FailedOpenLeavesFlat ==
    /\ \A i \in 1..(Len(bot_calls) - 1) :
          /\ IsCloseOrder(bot_calls[i].order) /\ Filled(bot_calls[i].result)
          /\ IsOpenOrder(bot_calls[i + 1].order) /\ bot_calls[i + 1].result = "fail"
          /\ \A j \in (i + 2)..Len(bot_calls) : ~Filled(bot_calls[j].result)
          => position = "none"
    /\ \A i \in 1..(Len(oh_calls) - 1) :
          /\ oh_calls[i].op = "close" /\ oh_calls[i].result = "fill"
          /\ oh_calls[i + 1].op = "open" /\ oh_calls[i + 1].result = "fail"
          => symbol_position_list[oh_calls[i].symbol].current_position_side = "none"

\* The last call of the log that has answered, 0 when there is none.
LastAnswered ==
    IF bot_calls = <<>> THEN 0
    ELSE IF Last(bot_calls).result = "pending" THEN Len(bot_calls) - 1
    ELSE Len(bot_calls)

\* C7: once an order call has succeeded the record shows its effect: the
\* side opened after an open, Flat after a close.
C7_RecordFollowsFill ==
    /\ LastAnswered > 0 /\ Filled(bot_calls[LastAnswered].result)
       => /\ IsOpenOrder(bot_calls[LastAnswered].order)
             => position = bot_calls[LastAnswered].order
          /\ IsCloseOrder(bot_calls[LastAnswered].order) => position = "none"
    /\ oh_calls # <<>> /\ Last(oh_calls).result = "fill"
       => symbol_position_list[Last(oh_calls).symbol].current_position_side
            = Last(oh_calls).side

\* C8: whatever the notifier does with the chart of a reversal, the close
\* call of that reversal follows it.
C8_NotifierNeverBlocksOrders ==
    \A i \in DOMAIN renko_calls :
       renko_calls[i].call = "send_renko_plot_to_discord"
       => /\ i < Len(renko_calls)
          /\ renko_calls[i + 1].symbol = renko_calls[i].symbol
          /\ renko_calls[i + 1].call = "place_market_close_order_if_position_opened"

\* C9: the handling of one brick makes at most one close call and at most
\* one open call.
C9_NoReissue ==
    /\ Cardinality({i \in DOMAIN bot_calls : IsCloseOrder(bot_calls[i].order)}) <= 1
    /\ Cardinality({i \in DOMAIN bot_calls : IsOpenOrder(bot_calls[i].order)}) <= 1
    /\ Cardinality({i \in DOMAIN oh_calls : oh_calls[i].op = "close"}) <= 1
    /\ Cardinality({i \in DOMAIN oh_calls : oh_calls[i].op = "open"}) <= 1
    /\ \A i \in 1..(Len(renko_calls) - 1) :
          renko_calls[i].call # "send_renko_plot_to_discord"
          => renko_calls[i + 1].call # renko_calls[i].call

\* The move rule for one price met with an anchor: the required move is
\* brick_size towards the last brick's direction (or with no brick yet) and
\* 2 x brick_size against it; nothing forms below it; the first brick starts
\* at the anchor and has the required height, the others have height
\* brick_size and chain; what is left after the last brick is less than
\* brick_size.
MoveRule(e) ==
    LET a == e.anchor[1]
        d == IF e.price > a THEN "up" ELSE "down"
        required == IF e.last_direction \in {None, Some(d)}
                    THEN e.brick_size ELSE 2 * e.brick_size
        f == e.formed
    IN  /\ (f = <<>>) <=> (Abs(e.price - a) < required)
        /\ f # <<>>
           => /\ f[1].open = a
              /\ Abs(f[1].close - f[1].open) = required
              /\ \A j \in DOMAIN f :
                    /\ f[j].direction = d
                    /\ (f[j].close > f[j].open) <=> (d = "up")
              /\ \A j \in 2..Len(f) :
                    /\ f[j].open = f[j - 1].close
                    /\ Abs(f[j].close - f[j].open) = e.brick_size
              /\ Abs(e.price - Last(f).close) < e.brick_size
              /\ d = "up" => Last(f).close <= e.price
              /\ d = "down" => Last(f).close >= e.price

\* C10: every price the bootstrap or the live builder meets with an anchor
\* follows the move rule: brick_size in the last brick's direction,
\* 2 x brick_size against it, the first reversal brick of height
\* 2 x brick_size.
C10_RequiredMove ==
    \A k \in DOMAIN renko_log :
       renko_log[k].anchor # None => MoveRule(renko_log[k])

\* The live builder, anchored at 6 after an Up brick with brick_size 2, meets
\* price 1 (2.5 brick sizes below) and forms the one Down brick 6 -> 2.
C10_Witness ==
    /\ renko_outcome = "returned"
    /\ \E k \in DOMAIN renko_log :
          /\ renko_log[k].anchor = Some(6)
          /\ renko_log[k].brick_size = 2
          /\ renko_log[k].last_direction = Some("up")
          /\ renko_log[k].price = 1
          /\ renko_log[k].formed = <<Brick(6, 2, "down")>>

\* The anchor a builder reads for a record: the close of its last brick, else
\* the stored last_renko_close (lines 230-234).
AnchorOf(sd) ==
    IF sd.renko_list # <<>> THEN Some(Last(sd.renko_list).close)
    ELSE sd.last_renko_close

\* Indices of the log entries of a symbol, and of those that formed bricks.
EntriesOf(symbol) == {k \in DOMAIN renko_log : renko_log[k].symbol = symbol}

FormingEntries(symbol) ==
    {k \in EntriesOf(symbol) : renko_log[k].formed # <<>>}

Max(S) == CHOOSE x \in S : \A y \in S : y <= x

IsSuffix(t, u) ==
    /\ Len(t) <= Len(u)
    /\ \A j \in 1..Len(t) : t[j] = u[Len(u) - Len(t) + j]

\* C11: a price that covers several brick sizes forms, in that one call, all
\* the bricks it completes: the first of the required height, each further
\* one of height brick_size, same direction, as many as fit below the price;
\* they end the brick history and the anchor is left at the last one's close.
C11_BurstEmitsAllBricks ==
    \A i \in DOMAIN symbol_data_list :
       LET sd == symbol_data_list[i]
           forming == FormingEntries(sd.symbol)
       IN  /\ \A k \in forming :
                LET e == renko_log[k]
                    a == e.anchor[1]
                    up == e.price > a
                    required == Abs(e.formed[1].close - a)
                    reach == required + (Len(e.formed) - 1) * e.brick_size
                IN  /\ \A j \in DOMAIN e.formed :
                          /\ e.formed[j].direction = IF up THEN "up" ELSE "down"
                          /\ e.formed[j].open =
                               IF j = 1 THEN a ELSE e.formed[j - 1].close
                          /\ j > 1 => Abs(e.formed[j].close - e.formed[j].open)
                                        = e.brick_size
                    /\ Last(e.formed).close = IF up THEN a + reach ELSE a - reach
                    /\ reach <= Abs(e.price - a)
                    /\ Abs(e.price - a) < reach + e.brick_size
                    /\ \A m \in EntriesOf(sd.symbol) :
                          /\ m > k
                          /\ \A n \in EntriesOf(sd.symbol) : ~(k < n /\ n < m)
                          => renko_log[m].anchor = Some(Last(e.formed).close)
           /\ i = Lookup(symbol_data_list, sd.symbol) /\ forming # {}
              => /\ IsSuffix(KeepLast(renko_log[Max(forming)].formed, RenkoKeep),
                             sd.renko_list)
                 /\ AnchorOf(sd) = Some(Last(renko_log[Max(forming)].formed).close)

\* The live builder, anchored at 0 with brick_size 2 and no brick yet, meets
\* price 5 and forms 0 -> 2 and 2 -> 4, leaving the anchor at 4 and 1 over.
C11_Witness ==
    /\ renko_outcome = "returned"
    /\ \E i \in DOMAIN symbol_data_list, k \in DOMAIN renko_log :
          /\ renko_log[k].symbol = symbol_data_list[i].symbol
          /\ renko_log[k].anchor = Some(0)
          /\ renko_log[k].brick_size = 2
          /\ renko_log[k].price = 5
          /\ renko_log[k].formed = <<Brick(0, 2, "up"), Brick(2, 4, "up")>>
          /\ AnchorOf(symbol_data_list[i]) = Some(4)

\* The move a price has to make from the anchor, as the specification has it.
RequiredMove(e) ==
    IF e.last_direction
         \in {None, Some(IF e.price > e.anchor[1] THEN "up" ELSE "down")}
    THEN e.brick_size
    ELSE 2 * e.brick_size

\* A log entry of a price that met an anchor and stayed below its threshold.
BelowThreshold(e) ==
    e.anchor # None /\ Abs(e.price - e.anchor[1]) < RequiredMove(e)

\* C12: a price equal to the anchor or closer to it than the required move
\* forms no brick; the next price of the symbol meets the same anchor; and a
\* call in which every price of a symbol was such a price leaves the symbol's
\* record (anchor and brick history) as it was and makes no notifier or
\* order call for it.
C12_NoBrickBelowThreshold ==
    [][ /\ \A k \in DOMAIN renko_log' :
             BelowThreshold(renko_log'[k])
             => /\ renko_log'[k].formed = <<>>
                /\ \A m \in DOMAIN renko_log' :
                      /\ m > k
                      /\ renko_log'[m].symbol = renko_log'[k].symbol
                      /\ \A n \in (k + 1)..(m - 1) :
                            renko_log'[n].symbol # renko_log'[k].symbol
                      => renko_log'[m].anchor = renko_log'[k].anchor
        /\ renko_phase = "live"
           => \A i \in DOMAIN symbol_data_list :
                 (\A k \in DOMAIN renko_log' :
                     renko_log'[k].symbol = symbol_data_list[i].symbol
                     => BelowThreshold(renko_log'[k]))
                 => /\ symbol_data_list'[i] = symbol_data_list[i]
                    /\ \A c \in DOMAIN renko_calls' :
                          renko_calls'[c].symbol # symbol_data_list[i].symbol
      ]_vars

\* The live builder, anchored at 6 after an Up brick with brick_size 3, meets
\* price 2: more than one brick size below, less than two, so no brick.
C12_Witness ==
    /\ renko_outcome = "returned"
    /\ \E k \in DOMAIN renko_log :
          /\ renko_log[k].anchor = Some(6)
          /\ renko_log[k].brick_size = 3
          /\ renko_log[k].last_direction = Some("up")
          /\ renko_log[k].price = 2
          /\ renko_log[k].formed = <<>>

\* C13: a price sequence handed to the live builder in one call leaves the
\* brick history that handing it over one price per call leaves.
C13_BatchEqualsOneAtATime ==
    replay.batch # None /\ replay.fed = Len(replay.closes)
    => replay.batch = Some(replay.single[1].renko_list)

\* A sequence with a burst and a reversal, run both ways.
C13_Witness ==
    /\ replay.batch # None
    /\ replay.fed = Len(replay.closes)
    /\ Len(replay.closes) = 3
    /\ \E j \in DOMAIN replay.batch[1] :
          j > 1 /\ replay.batch[1][j].direction # replay.batch[1][1].direction

\* C14: the bootstrap path over a list of closes and the live path fed the
\* same closes one by one from a reset record with the same brick size leave
\* the same brick history.
C14_BootstrapEqualsLive ==
    replay.boot # None /\ replay.fed = Len(replay.closes)
    => replay.boot = Some(replay.single[1].renko_list)

\* A sequence whose bricks reverse, run through both paths.
C14_Witness ==
    /\ replay.boot # None
    /\ replay.fed = Len(replay.closes)
    /\ \E j \in DOMAIN replay.boot[1] :
          j > 1 /\ replay.boot[1][j].direction # replay.boot[1][1].direction

\* C15: a record without a brick size holds no brick after the bootstrap, and
\* a live call changes no record whose brick size is unavailable: no brick, no anchor set or moved, no notifier or order call for the symbol;
\* and no live call changes a record's brick size, so the anchor a symbol has
\* when its size is known is the one construction goes on from.
C15_NoSizeNoConstruction ==
    [][ /\ \A i \in DOMAIN symbol_data_list' :
             symbol_data_list'[i].renko_brick_size = None
             => symbol_data_list'[i].renko_list = <<>>
        /\ renko_phase = "live" =>
             \A i \in DOMAIN symbol_data_list :
                /\ symbol_data_list'[i].renko_brick_size
                     = symbol_data_list[i].renko_brick_size
                /\ symbol_data_list[i].renko_brick_size = None
                   => /\ symbol_data_list'[i] = symbol_data_list[i]
                      /\ AnchorOf(symbol_data_list'[i]) = None
                      /\ \A k \in DOMAIN renko_log' :
                            renko_log'[k].symbol # symbol_data_list[i].symbol
                      /\ \A c \in DOMAIN renko_calls' :
                            renko_calls'[c].symbol # symbol_data_list[i].symbol
      ]_vars

\* A live call that met a price for a symbol whose record has no brick size.
C15_Witness ==
    /\ renko_outcome = "returned"
    /\ \E i \in DOMAIN symbol_data_list :
          /\ symbol_data_list[i].symbol \in renko_skipped
          /\ symbol_data_list[i].renko_brick_size = None
          /\ symbol_data_list[i].ohlcv_list # <<>>

\* C16: the brick size a record holds is absent or strictly positive, and
\* the live handler never fails on a division by a zero brick size.
C16_BrickSizePositive ==
    /\ \A i \in DOMAIN symbol_data_list :
          \/ symbol_data_list[i].renko_brick_size = None
          \/ symbol_data_list[i].renko_brick_size[1] > 0
    /\ renko_outcome # "raised"

C18_AnchorOnGrid ==
    /\ \A i \in DOMAIN symbol_data_list :
          LET sd == symbol_data_list[i]
          IN  (sd.renko_brick_size # None /\ sd.renko_brick_size[1] > 0
                   /\ AnchorOf(sd) # None)
                  => AnchorOf(sd)[1] % sd.renko_brick_size[1] = 0
    /\ \A k \in DOMAIN renko_log :
          LET e == renko_log[k]
          IN  e.brick_size > 0 =>
                  /\ e.anchor # None => e.anchor[1] % e.brick_size = 0
                  /\ \A b \in DOMAIN e.formed :
                        e.formed[b].close % e.brick_size = 0

\* A live price has moved a record's anchor to a multiple other than zero,
\* on a grid wider than one tick.
C18_Witness ==
    /\ ticks > 0
    /\ \E i \in DOMAIN symbol_data_list :
          LET sd == symbol_data_list[i]
          IN  /\ sd.renko_brick_size # None
              /\ sd.renko_brick_size[1] > 1
              /\ sd.renko_list # <<>>
              /\ AnchorOf(sd)[1] # 0
              /\ \E k \in DOMAIN renko_log :
                    /\ renko_log[k].symbol = sd.symbol
                    /\ renko_log[k].anchor # None
                    /\ renko_log[k].formed # <<>>
                    /\ Last(renko_log[k].formed).close = AnchorOf(sd)[1]
                    /\ renko_log[k].price % sd.renko_brick_size[1] # 0

\* `kept` is what a history bounded by n keeps of the bricks `all`, listed in
\* formation order: all of them while they fit, else the last n, in order.
MostRecentOf(kept, all, n) ==
    /\ Len(kept) = IF Len(all) > n THEN n ELSE Len(all)
    /\ \A j \in DOMAIN kept : kept[j] = all[Len(all) - Len(kept) + j]

\* C19: after every bootstrap and every processed price a brick history
\* holds at most its bound of bricks (200 for a symbol's renko_list, 5 for
\* the bot's confirmed_bricks_history), and it is the most recent part, in
\* formation order, of the bricks it held before followed by the bricks just
\* formed: what is dropped is dropped from the oldest end only.
C19_HistoryKeepsMostRecent ==
    [][ /\ (bot_pc = "loop" /\ bot_pending # <<>>)
              => MostRecentOf(confirmed_bricks_history',
                              Append(confirmed_bricks_history,
                                     Head(bot_pending)), HistoryKeep)
        /\ \A i \in DOMAIN symbol_data_list' :
              LET sd == symbol_data_list'[i]
                  before == IF renko_phase = "boot" THEN <<>>
                            ELSE symbol_data_list[i].renko_list
              IN  /\ Len(sd.renko_list) <= RenkoKeep
                  /\ renko_log' # renko_log
                        => MostRecentOf(sd.renko_list,
                                        before \o FormedIn(renko_log', sd.symbol),
                                        RenkoKeep)
        /\ entry = "replay" =>
              /\ MostRecentOf(replay'.single[1].renko_list,
                              replay'.single_formed, RenkoKeep)
              /\ replay'.boot # None
                    => MostRecentOf(replay'.boot[1], replay'.boot_formed,
                                    RenkoKeep)
              /\ replay'.batch # None
                    => MostRecentOf(replay'.batch[1], replay'.batch_formed,
                                    RenkoKeep)
      ]_vars

\* Both paths have dropped bricks: the bootstrap formed more than the bound
\* in one pass, and the live path, fed one price at a time, dropped old up
\* bricks to make room for the down bricks of a reversal.
C19_Witness ==
    /\ replay.boot # None
    /\ Len(replay.boot_formed) > RenkoKeep
    /\ Len(replay.boot[1]) = RenkoKeep
    /\ replay.fed = Len(replay.closes)
    /\ Len(replay.single_formed) > RenkoKeep
    /\ Len(replay.single[1].renko_list) = RenkoKeep
    /\ replay.single[1].renko_list[1].direction = "up"
    /\ Last(replay.single[1].renko_list).direction = "down"

\* C20: no error raised while reading the live feed ends the live loop:
\* the loop is never left, and whenever an except clause has taken an error
\* the loop goes on to read the feed again (unless the operator interrupts).
C20_FeedErrorsNeverEndTheLoop ==
    /\ [](main_pc # "left")
    /\ (main_pc = "retry_wait") ~> (main_pc \in {"watch", "interrupted"})

\* The loop of main.py reads the feed again after a network error.
C20_Witness ==
    /\ main_loop = "main.py"
    /\ main_pc = "watch"
    /\ main_caught = "NetworkError"

\* C21: an authentication error is fatal for the session: once one has
\* been raised, no feed read is attempted any more.
C21_AuthErrorIsFatal ==
    main_error = "AuthenticationError"
        => main_pc \notin {"watch", "body", "pause"}

\* C22: an order-placement failure does not crash the lane.  A live call in
\* which a notifier or order call failed returns normally (it can raise only
\* over a brick size of zero, which is another matter); every price that
\* signalled still formed all its bricks; each history ends with the bricks
\* of the call and the anchor stands at the last one's close.  In the bot a
\* failed order leaves the bricks still to be looped over in place.
C22_OrderFailureStaysInside ==
    [][ /\ (renko_phase = "live" /\ AnyFailed(renko_calls'))
              => /\ renko_outcome' = "raised"
                    => \E i \in DOMAIN symbol_data_list :
                          symbol_data_list[i].renko_brick_size = Some(0)
                 /\ \A k \in DOMAIN renko_log' :
                       renko_log'[k].signalled => MoveRule(renko_log'[k])
                 /\ \A i \in DOMAIN symbol_data_list :
                       LET sd == symbol_data_list'[i]
                           new == FormedIn(renko_log', sd.symbol)
                           all == symbol_data_list[i].renko_list \o new
                       IN  /\ MostRecentOf(sd.renko_list, all, RenkoKeep)
                           /\ new # <<>>
                                 => AnchorOf(sd) = Some(Last(new).close)
        /\ (bot_pc \in {"entry", "exit"} /\ bot_calls' # bot_calls
                /\ \E k \in DOMAIN bot_calls' : bot_calls'[k].result = "fail")
              => /\ bot_pending' = bot_pending
                 /\ bot_pc' \in {"loop", "entry", "exit"}
      ]_vars

\* After a call in which an order call failed, a later call has gone through
\* a reversal of two bricks whose order call failed as well, and returned.
C22_Witness ==
    /\ renko_failed
    /\ AnyFailed(renko_calls)
    /\ renko_outcome = "returned"
    /\ \E k \in DOMAIN renko_log :
          /\ renko_log[k].signalled
          /\ Len(renko_log[k].formed) >= 2
          /\ \E i \in DOMAIN symbol_data_list :
                /\ symbol_data_list[i].symbol = renko_log[k].symbol
                /\ AnchorOf(symbol_data_list[i])
                     = Some(Last(renko_log[k].formed).close)

\* C23: a malformed sample in a ticker batch is dropped alone: for a symbol
\* with a positive brick size the call leaves what it leaves for the same
\* batch without that sample.
C23_MalformedDroppedAlone ==
    (replay.dirty # None /\ replay.size > 0)
        => /\ replay.dirty[1].record = replay.batch_record
           /\ replay.dirty[1].raised = replay.batch_raised

\* C24: the recorded position side of a symbol changes only in a step
\* whose order calls include a filled order for that symbol.
C24_SideChangesOnlyOnFill ==
    [][ \A symbol \in Symbols :
           symbol_position_list'[symbol].current_position_side
               # symbol_position_list[symbol].current_position_side
           => \E k \in DOMAIN oh_calls' :
                 /\ oh_calls'[k].symbol = symbol
                 /\ oh_calls'[k].result # "fail"
      ]_vars

\* The step moved no price of `symbol` through the brick builder.
NoPriceFor(symbol) ==
    \A k \in DOMAIN renko_log' : renko_log'[k].symbol # symbol

\* The step issued orders, none of them for `symbol`.
OrdersForOthersOnly(symbol) ==
    /\ oh_calls' # <<>>
    /\ \A k \in DOMAIN oh_calls' : oh_calls'[k].symbol # symbol

\* C25: handling a price or an order of one symbol leaves every other
\* symbol's brick record (brick size, anchor, history) and position record
\* as they were.
C25_OtherSymbolsUntouched ==
    [][ /\ renko_phase = "live"
           => \A i \in DOMAIN symbol_data_list :
                 NoPriceFor(symbol_data_list[i].symbol)
                 => symbol_data_list'[i] = symbol_data_list[i]
        /\ \A symbol \in Symbols :
              OrdersForOthersOnly(symbol)
              => symbol_position_list'[symbol] = symbol_position_list[symbol]
      ]_vars

\* C26: the live loop is never stopped inside a transition: when the task
\* has been stopped, no exchange call is left unanswered, no order of the
\* entry block is left unissued, and no brick of the batch is left unhandled.
C26_NoStopInsideTransition ==
    bot_pc = "cancelled"
        => /\ bot_todo = <<>>
           /\ bot_pending = <<>>
           /\ \A k \in DOMAIN bot_calls : bot_calls[k].result # "pending"

\* C27: a failed historical-bar request is retried after a delay: the fetch
\* gives up over a failed request only when that request was itself a retry.
C27_FailedRequestIsRetried ==
    (fetch.pc # "loop" /\ fetch.requests # <<>>
         /\ Last(fetch.requests) = "error")
        => /\ Len(fetch.requests) >= 2
           /\ fetch.requests[Len(fetch.requests) - 1] = "error"

\* C28: the paginated fetch hands back at most the configured count of bars,
\* oldest first, every later page in front of the pages fetched before it.
C28_AtMostCountOldestFirst ==
    fetch.pc = "done"
        => /\ Len(fetch.result) <= fetch.total
           /\ \A i \in 1..(Len(fetch.result) - 1) :
                  fetch.result[i] < fetch.result[i + 1]
           /\ \A k \in 1..(Len(fetch.pages) - 1) :
                  \A i \in 1..Len(fetch.pages[k + 1]) :
                      \A j \in 1..Len(fetch.pages[k]) :
                          fetch.pages[k + 1][i] < fetch.pages[k][j]

\* a is a multiple of size with no other multiple nearer to price.
NearestMultiple(a, price, size) ==
    /\ a % size = 0
    /\ 2 * Abs(price - a) <= size

\* C29: the first price met by a symbol with a known (positive) brick size and
\* no anchor sets the anchor to the multiple of the brick size nearest to it,
\* forms no brick and leads to no order call; in the bootstrap loop (first
\* conjunct) and in the live handler fed a fresh record (second conjunct).
C29_FirstPriceOnlySetsAnchor ==
    /\ \A k \in DOMAIN renko_log :
          LET e == renko_log[k]
              later == {m \in EntriesOf(e.symbol) : m > k}
              i == Lookup(symbol_data_list, e.symbol)
          IN  (e.anchor = None /\ e.brick_size > 0)
                  => /\ e.formed = <<>>
                     /\ ~e.signalled
                     /\ \A c \in DOMAIN renko_calls :
                           renko_calls[c].symbol # e.symbol
                     /\ IF later # {}
                        THEN LET n == CHOOSE m \in later :
                                         \A o \in later : m <= o
                             IN  /\ renko_log[n].anchor # None
                                 /\ NearestMultiple(renko_log[n].anchor[1],
                                                    e.price, e.brick_size)
                        ELSE /\ AnchorOf(symbol_data_list[i]) # None
                             /\ symbol_data_list[i].renko_list = <<>>
                             /\ NearestMultiple(AnchorOf(symbol_data_list[i])[1],
                                                e.price, e.brick_size)
    /\ (entry = "replay" /\ replay.fed = 1 /\ replay.size > 0)
          => LET sd == replay.single[1]
             IN  /\ sd.renko_list = <<>>
                 /\ replay.single_formed = <<>>
                 /\ replay.single_calls = <<>>
                 /\ sd.last_renko_close # None
                 /\ NearestMultiple(sd.last_renko_close[1], replay.closes[1],
                                    replay.size)

\* The live handler, wired with an order handler, has met price 5 as the
\* first price of a fresh record with brick size 3 and left the anchor at 6.
C29_Witness ==
    /\ entry = "replay"
    /\ replay.fed = 1
    /\ replay.size = 3
    /\ replay.closes[1] = 5
    /\ replay.single[1].last_renko_close = Some(6)
    /\ replay.single[1].renko_list = <<>>

AllAnswered(calls) == \A c \in DOMAIN calls : calls[c].result # "pending"

\* A step that takes the oldest brick not yet taken.
TakesBrick == bot_pending # <<>> /\ bot_pending' = Tail(bot_pending)

\* C30: prices and their bricks are handled in arrival order and one at a
\* time.  A step that reads the next price (hands its bricks to the bot)
\* starts with no brick of the price before left, no order type left to
\* issue and every order call answered; the bricks handed over leave only by
\* being taken oldest first, each put at the end of the history after the
\* calls of the brick before it were answered.
C30_NoPipeliningAcrossPrices ==
    [][entry = "bot" =>
         /\ (bot_pending' # bot_pending /\ ~TakesBrick)
               => /\ bot_pending = <<>>
                  /\ bot_todo = <<>>
                  /\ AllAnswered(bot_calls)
         /\ TakesBrick
               => /\ Last(confirmed_bricks_history') = Head(bot_pending)
                  /\ bot_todo = <<>>
                  /\ AllAnswered(bot_calls)
         /\ confirmed_bricks_history' # confirmed_bricks_history
               => TakesBrick]_vars

\* The bricks of a further price have been handed to the bot after an order
\* of an earlier price was answered and left the bot long.
C30_Witness ==
    /\ entry = "bot"
    /\ bot_pc = "loop"
    /\ Len(bot_pending) = 2
    /\ bot_calls # <<>>
    /\ AllAnswered(bot_calls)
    /\ position = "long"

RecordsOf(symbol) ==
    {i \in DOMAIN symbol_data_list : symbol_data_list[i].symbol = symbol}

\* C31: the symbol table never holds two records for one symbol: loading
\* bars for a symbol that has a record does not create a second one.
C31_OneRecordPerSymbol ==
    \A symbol \in Symbols : Cardinality(RecordsOf(symbol)) <= 1

\* The three most recent bricks of the history exist and all have direction d.
ThreeInARow(hist, d) ==
    /\ Len(hist) >= 3
    /\ \A j \in 0..2 : hist[Len(hist) - j] = d

\* C32: TradingBot issues an opening order only when the three most recent
\* confirmed bricks have one direction and the position is not on that side
\* (three up: long, three down: short); with fewer than three confirmed
\* bricks it issues no order at all.
C32_OpenOnlyOnThreeInARow ==
    /\ \A i \in DOMAIN bot_calls :
          /\ bot_calls[i].order = "long"
                => /\ ThreeInARow(confirmed_bricks_history, "up")
                   /\ bot_calls[i].side_before # "long"
          /\ bot_calls[i].order = "short"
                => /\ ThreeInARow(confirmed_bricks_history, "down")
                   /\ bot_calls[i].side_before # "short"
    /\ Len(confirmed_bricks_history) < 3 => bot_calls = <<>>

\* The third up brick in a row has made a flat bot issue its buy order, and
\* the order was filled.
C32_Witness ==
    /\ entry = "bot"
    /\ confirmed_bricks_history = <<"up", "up", "up">>
    /\ bot_calls = <<[order |-> "long", side_before |-> "none",
                      result |-> "fill"]>>
    /\ position = "long"

\* C33: after a price met by a builder that has an anchor, no completed brick
\* is left unemitted: the price is less than brick_size from the resulting
\* anchor when it lies in the direction of the last brick then stored (or
\* there is none), and less than 2 * brick_size when it lies against it.
C33_NoBrickLeftUnemitted ==
    \A k \in DOMAIN renko_log :
       LET e == renko_log[k]
           after == IF e.formed # <<>> THEN Last(e.formed).close
                    ELSE e.anchor[1]
           facing == IF e.formed # <<>> THEN Some(Last(e.formed).direction)
                     ELSE e.last_direction
           toward == IF e.price > after THEN "up" ELSE "down"
       IN  (e.anchor # None /\ e.brick_size > 0)
               => IF facing = None \/ facing = Some(toward)
                  THEN Abs(e.price - after) < e.brick_size
                  ELSE Abs(e.price - after) < 2 * e.brick_size

\* A price has stayed at least one brick size, and less than two, against
\* the last brick without forming a brick.
C33_Witness ==
    \E k \in DOMAIN renko_log :
       /\ renko_log[k].anchor # None
       /\ renko_log[k].last_direction # None
       /\ renko_log[k].formed = <<>>
       /\ Abs(renko_log[k].price - renko_log[k].anchor[1])
             >= renko_log[k].brick_size

\* A stored brick history is a chain: each brick points its own way, opens
\* where the brick before it closed, and is 2 * size high when it turns
\* against the brick before it and size high otherwise.  The first stored
\* brick has no brick before it unless the history is full (RenkoKeep
\* bricks), when the brick it followed may have been dropped.
IsChain(bricks, size) ==
    \A i \in DOMAIN bricks :
       LET b == bricks[i]
       IN  /\ b.direction = "up" => b.close > b.open
           /\ b.direction = "down" => b.close < b.open
           /\ i > 1 =>
                 /\ b.open = bricks[i - 1].close
                 /\ Abs(b.close - b.open) =
                       IF b.direction # bricks[i - 1].direction
                       THEN 2 * size ELSE size
           /\ i = 1 =>
                 \/ Abs(b.close - b.open) = size
                 \/ Len(bricks) = RenkoKeep /\ Abs(b.close - b.open) = 2 * size

\* C34: in every reachable state the brick history of every record is a
\* chain, whether the bootstrap, the live handler or both built it.
C34_HistoryIsAChain ==
    /\ \A i \in DOMAIN symbol_data_list :
          LET sd == symbol_data_list[i]
          IN  sd.renko_list # <<>>
                  => /\ sd.renko_brick_size # None
                     /\ sd.renko_brick_size[1] > 0
                     /\ IsChain(sd.renko_list, sd.renko_brick_size[1])
    /\ entry = "replay" =>
          /\ replay.size > 0
                => /\ IsChain(replay.single[1].renko_list, replay.size)
                   /\ replay.boot # None => IsChain(replay.boot[1], replay.size)
                   /\ replay.batch # None => IsChain(replay.batch[1], replay.size)
          /\ replay.size = 0
                => /\ replay.single[1].renko_list = <<>>
                   /\ replay.boot \in {None, Some(<<>>)}
                   /\ replay.batch \in {None, Some(<<>>)}

\* A record holds bricks the bootstrap formed followed by a reversal the
\* live handler formed: a 2 * size brick after bricks of the other direction,
\* then a size brick of its own direction.
C34_Witness ==
    /\ ticks > 0
    /\ \E i \in DOMAIN symbol_data_list :
          LET l == symbol_data_list[i].renko_list
          IN  /\ Len(l) >= 3
              /\ renko_log # <<>>
              /\ Len(Last(renko_log).formed) >= 2
              /\ l[Len(l)].direction = l[Len(l) - 1].direction
              /\ l[Len(l) - 1].direction # l[Len(l) - 2].direction
              /\ Last(renko_log).last_direction = Some(l[Len(l) - 2].direction)

TradeCallNames ==
    {"send_renko_plot_to_discord",
     "place_market_close_order_if_position_opened", "place_market_open_order"}

\* C35: one price starts at most one order cycle for its symbol, however
\* many bricks it forms: the plot, close and open calls made for a symbol are
\* each at most as many as the prices that reversed it, and a price handled
\* alone leads to at most one call of each.
C35_OneCyclePerPrice ==
    /\ \A symbol \in Symbols, call \in TradeCallNames :
          Cardinality(CallsOf(symbol, call))
              <= Cardinality(ReversalEntries(symbol))
    /\ \A call \in TradeCallNames :
          Cardinality({k \in DOMAIN replay.single_calls :
                          replay.single_calls[k].call = call}) <= 1

\* A live price has reversed a symbol with a burst of two bricks or more,
\* and the trade signal block ran for it.
C35_Witness ==
    /\ ticks > 0
    /\ renko_calls # <<>>
    /\ \E k \in DOMAIN renko_log :
          /\ k \in ReversalEntries(renko_log[k].symbol)
          /\ Len(renko_log[k].formed) >= 2
          /\ CallsOf(renko_log[k].symbol, "send_renko_plot_to_discord") # {}

\* C36: a live call leaves the bar window and the brick size of every record
\* as they were, and every price it handles is handled with the brick size
\* the record held before the call: each brick it forms is that size high,
\* or twice that.
C36_LiveKeepsWindowAndSize ==
    [][ /\ (entry = "renko" /\ renko_phase = "live") =>
              /\ Len(symbol_data_list') = Len(symbol_data_list)
              /\ \A i \in DOMAIN symbol_data_list :
                    /\ symbol_data_list'[i].ohlcv_list
                          = symbol_data_list[i].ohlcv_list
                    /\ symbol_data_list'[i].renko_brick_size
                          = symbol_data_list[i].renko_brick_size
              /\ renko_log' # renko_log =>
                    \A k \in DOMAIN renko_log' :
                       LET e == renko_log'[k]
                           sd == symbol_data_list[Lookup(symbol_data_list,
                                                         e.symbol)]
                       IN  /\ sd.renko_brick_size = Some(e.brick_size)
                           /\ \A b \in DOMAIN e.formed :
                                 Abs(e.formed[b].close - e.formed[b].open)
                                    \in {e.brick_size, 2 * e.brick_size}
        /\ (entry = "replay" /\ replay'.fed # replay.fed) =>
              /\ replay'.single[1].ohlcv_list = replay.single[1].ohlcv_list
              /\ replay'.single[1].renko_brick_size = Some(replay.size)
              /\ \A b \in (Len(replay.single_formed) + 1)
                            ..Len(replay'.single_formed) :
                    Abs(replay'.single_formed[b].close
                          - replay'.single_formed[b].open)
                       \in {replay.size, 2 * replay.size}
      ]_vars

\* A live price has formed bricks for a record whose bar window holds more
\* bars than the size rule needs.
C36_Witness ==
    /\ ticks > 0
    /\ \E k \in DOMAIN renko_log :
          LET sd == symbol_data_list[Lookup(symbol_data_list,
                                            renko_log[k].symbol)]
          IN  /\ renko_log[k].formed # <<>>
              /\ sd.renko_brick_size = Some(renko_log[k].brick_size)
              /\ Len(sd.ohlcv_list) > atr_period + 1

\* C37: as long as no exchange call of the bot has raised, every opening
\* order is issued from a flat position, and no close is followed by an open
\* in the calls of one brick (the close-first branch of the entry block is
\* not taken).
C37_OpensOnlyFromFlat ==
    ~bot_failed =>
        \A i \in DOMAIN bot_calls :
           /\ IsOpenOrder(bot_calls[i].order)
                 => bot_calls[i].side_before = "none"
           /\ (i < Len(bot_calls) /\ IsCloseOrder(bot_calls[i].order))
                 => ~IsOpenOrder(bot_calls[i + 1].order)

\* C38: in TradingBot the entry price is recorded exactly when a position is
\* held: position is long or short if and only if open_price is set.
C38_OpenPriceIffPosition ==
    (position \in {"long", "short"}) <=> (open_price # None)

\* C39: the paginated fetch loop terminates.  While it runs fewer bars are
\* held than the configured count; every turn either holds more bars after
\* it than before or leaves the loop; and the loop is left in the end.
C39_FetchLoopTerminates ==
    /\ [](fetch.pc = "loop" => Len(fetch.all) < fetch.total)
    /\ [][fetch' # fetch =>
             \/ fetch'.pc # "loop"
             \/ /\ Len(fetch'.all) > Len(fetch.all)
                /\ Len(fetch.all) < fetch.total]_vars
    /\ (entry = "fetch") ~> (fetch.pc # "loop")

\* A loop has put a full page in front of nothing and goes on to ask for
\* the page before it.
C39_Witness ==
    /\ entry = "fetch"
    /\ fetch.pc = "loop"
    /\ fetch.requests = <<"page">>
    /\ Len(fetch.all) = limit_per_request

====
